---- MODULE Spec2Model ----
(***************************************************************************)
(* imagepullsecret-patcher: the reconciliation core.                       *)
(*                                                                         *)
(* The model holds the content of one namespace of the cluster (its       *)
(* Namespace object, its ServiceAccounts, Secrets and Pods), the two      *)
(* controllers (ServiceAccountController and SecretController) with their *)
(* work queues, and an external writer.  Every call to the API server is  *)
(* one atomic step; what a reconciler computes between two calls belongs  *)
(* to the step of the call before it.                                     *)
(*                                                                         *)
(* Names that are glob-matched (namespace and ServiceAccount names, the   *)
(* pattern lists) are sequences of one-character strings; names that are  *)
(* only compared for equality are strings.                                 *)
(***************************************************************************)
EXTENDS Integers, Sequences, FiniteSets, TLC

(***************************************************************************)
(* Strings                                                                 *)
(***************************************************************************)
Str_default == <<"d","e","f","a","u","l","t">>
Str_builder == <<"b","u","i","l","d","e","r">>
Str_ns1 == <<"n","s","1">>
Str_kube_system == <<"k","u","b","e","-","s","y","s","t","e","m">>
Str_kube_glob == <<"k","u","b","e","-","*">>

(* strings.Split(list, ","): an empty list gives one empty segment. *)
RECURSIVE Split(_)
Split(list) ==
    IF \A i \in 1..Len(list) : list[i] # ","
    THEN <<list>>
    ELSE LET k == CHOOSE i \in 1..Len(list) :
                      list[i] = "," /\ \A j \in 1..(i-1) : list[j] # ","
         IN  <<SubSeq(list, 1, k-1)>> \o Split(SubSeq(list, k+1, Len(list)))

(* filepath.Match(pattern, name) for patterns over literals, '*' and '?'   *)
(* ('*' and '?' do not match the path separator).                          *)
RECURSIVE Match(_, _)
Match(pattern, name) ==
    IF pattern = <<>> THEN name = <<>>
    ELSE IF Head(pattern) = "*"
         THEN \E k \in 0..Len(name) :
                  /\ \A j \in 1..k : name[j] # "/"
                  /\ Match(Tail(pattern), SubSeq(name, k+1, Len(name)))
    ELSE IF Head(pattern) = "?"
         THEN name # <<>> /\ Head(name) # "/" /\ Match(Tail(pattern), Tail(name))
    ELSE name # <<>> /\ Head(name) = Head(pattern)
                     /\ Match(Tail(pattern), Tail(name))

(* A variant that compares the entries literally. *)
IsStringInList_Literal(find, list) ==
    \E i \in 1..Len(Split(list)) : Split(list)[i] = find

IsStringInList(find, list) ==
    \E i \in 1..Len(Split(list)) :
        LET ex == Split(list)[i] IN ex = find \/ Match(ex, find)

(***************************************************************************)
(* Configuration                                                           *)
(***************************************************************************)
AnnotationManagedBy == "app.kubernetes.io/managed-by"
AnnotationAppName == "imagepullsecret-patcher"
DockerConfigJsonKey == ".dockerconfigjson"
SecretTypeDockerConfigJson == "kubernetes.io/dockerconfigjson"

(* The credential given inline (-dockerconfigjson). *)
Credential == "cred"

(* NewConfig with its defaults; the Secret's namespace of origin is the    *)
(* operator's namespace.                                                   *)
NewConfig(deletePods) ==
    [ DockerConfigJSON     |-> Credential,
      DockerConfigJSONPath |-> "",
      SecretName           |-> "global-imagepullsecret",
      SecretNamespace      |-> Str_kube_system,
      ExcludedNamespaces   |-> Str_kube_glob,
      ExcludeAnnotation    |-> "pborn.eu/imagepullsecret-patcher-exclude",
      ServiceAccounts      |-> Str_default,
      FeatureDeletePods    |-> deletePods ]

(***************************************************************************)
(* Maps (annotations, data): functions with a finite domain; a nil map and *)
(* an empty map are both the empty function.                               *)
(***************************************************************************)
EmptyMap == <<>>

(* A variant that reads the map without the `ok` of the lookup: a missing  *)
(* key reads as the empty string.                                          *)
HasAnnotation_ZeroValue(obj, annotationKey, annotationValue) ==
    (IF annotationKey \in DOMAIN obj.annotations
     THEN obj.annotations[annotationKey] ELSE "") = annotationValue

HasAnnotation(obj, annotationKey, annotationValue) ==
    /\ annotationKey \in DOMAIN obj.annotations
    /\ obj.annotations[annotationKey] = annotationValue

(* A variant that takes any value of the exclude annotation as "true". *)
IsNamespaceExcluded_AnyValue(c, namespace) ==
    \/ IsStringInList(namespace.name, c.ExcludedNamespaces)
    \/ c.ExcludeAnnotation \in DOMAIN namespace.annotations

IsNamespaceExcluded(c, namespace) ==
    \/ IsStringInList(namespace.name, c.ExcludedNamespaces)
    \/ HasAnnotation(namespace, c.ExcludeAnnotation, "true")

IsServiceAccountExcluded(c, serviceAccount) ==
    HasAnnotation(serviceAccount, c.ExcludeAnnotation, "true")

(* A variant that does not look at the namespace. *)
IsServiceAccountManaged_AnyNamespace(c, namespace, serviceAccount) ==
    IF IsServiceAccountExcluded(c, serviceAccount)
    THEN FALSE
    ELSE IsStringInList(serviceAccount.name, c.ServiceAccounts)

IsServiceAccountManaged(c, namespace, serviceAccount) ==
    IF IsNamespaceExcluded(c, namespace) \/ IsServiceAccountExcluded(c, serviceAccount)
    THEN FALSE
    ELSE IsStringInList(serviceAccount.name, c.ServiceAccounts)

(* A variant that takes the configured name as managed in every namespace. *)
IsManagedSecret_ByName(c, namespace, secret) ==
    IF IsNamespaceExcluded(c, namespace) THEN FALSE
    ELSE IF HasAnnotation(secret, AnnotationManagedBy, AnnotationAppName) THEN TRUE
    ELSE secret.name = c.SecretName

IsManagedSecret(c, namespace, secret) ==
    IF IsNamespaceExcluded(c, namespace) THEN FALSE
    ELSE IF HasAnnotation(secret, AnnotationManagedBy, AnnotationAppName) THEN TRUE
    ELSE secret.name = c.SecretName /\ secret.namespace # c.SecretNamespace

(***************************************************************************)
(* State                                                                   *)
(***************************************************************************)
VARIABLES
    cfg,              \* the Config both reconcilers share (read-only)
    file,             \* the credential file at DockerConfigJSONPath
    ns,               \* the Namespace object
    serviceAccounts,  \* name -> ServiceAccount, the ones that exist
    secrets,          \* name -> Secret, the ones that exist
    pods,             \* name -> Pod, the ones that exist
    queue,            \* controller -> keys waiting to be reconciled
    worker,           \* controller -> the reconcile it is running
    budget,           \* failing API calls and foreign writes that may still happen
    hist,             \* what has happened so far (history, read by no action)
    watcher,          \* the goroutine that polls the credential file
    call              \* the last call of a classifier and what it returned

store == <<ns, serviceAccounts, secrets, pods>>
vars == <<cfg, file, ns, serviceAccounts, secrets, pods, queue, worker, budget, hist,
          watcher, call>>

Controllers == {"SA", "Secret"}

(* Bound: the number of disturbances (an API call that fails, a write by   *)
(* another writer) in one behaviour.                                       *)
MaxDisturbances == 1

(***************************************************************************)
(* The credential source                                                   *)
(***************************************************************************)
(* A variant in which the inline credential wins over the file path. *)
GetDockerConfigJSON_InlineFirst(c) ==
    IF c.DockerConfigJSON = "" /\ c.DockerConfigJSONPath = ""
    THEN [err |-> TRUE, val |-> "", read |-> FALSE]
    ELSE IF c.DockerConfigJSON # ""
    THEN [err |-> FALSE, val |-> c.DockerConfigJSON, read |-> FALSE]
    ELSE [err |-> ~file.readable, val |-> IF file.readable THEN file.content ELSE "",
          read |-> TRUE]

GetDockerConfigJSON(c) ==
    IF c.DockerConfigJSON = "" /\ c.DockerConfigJSONPath = ""
    THEN [err |-> TRUE, val |-> "", read |-> FALSE]
    ELSE IF c.DockerConfigJSON # "" /\ c.DockerConfigJSONPath # ""
    THEN [err |-> TRUE, val |-> "", read |-> FALSE]
    ELSE IF c.DockerConfigJSON # ""
    THEN [err |-> FALSE, val |-> c.DockerConfigJSON, read |-> FALSE]
    ELSE [err |-> ~file.readable, val |-> IF file.readable THEN file.content ELSE "",
          read |-> TRUE]

ConstructImagePullSecret(c, namespace) ==
    LET dockerConfigJSON == GetDockerConfigJSON(c) IN
    [ err |-> dockerConfigJSON.err,
      secret |->
        [ name        |-> c.SecretName,
          namespace   |-> namespace,
          annotations |-> (AnnotationManagedBy :> AnnotationAppName),
          data        |-> (DockerConfigJsonKey :> dockerConfigJSON.val),
          type        |-> SecretTypeDockerConfigJson ] ]

(***************************************************************************)
(* The API server: JSON merge patches as client.MergeFrom builds them.     *)
(* A map is patched key by key (a key of the base that the changed object  *)
(* lacks is removed, a key whose value differs is set); a list is replaced *)
(* as a whole.  The patch carries no resourceVersion.                      *)
(***************************************************************************)
(* A variant that merges: no key of the live map is removed. *)
MergeFromMap_KeepKeys(base, modified) ==
    [ set |-> [k \in {x \in DOMAIN modified :
                        x \notin DOMAIN base \/ base[x] # modified[x]} |-> modified[k]],
      del |-> {} ]

MergeFromMap(base, modified) ==
    [ set |-> [k \in {x \in DOMAIN modified :
                        x \notin DOMAIN base \/ base[x] # modified[x]} |-> modified[k]],
      del |-> DOMAIN base \ DOMAIN modified ]

ApplyMapPatch(live, patch) ==
    [k \in (DOMAIN live \ patch.del) \cup DOMAIN patch.set |->
        IF k \in DOMAIN patch.set THEN patch.set[k] ELSE live[k]]

Remove(f, k) == [x \in DOMAIN f \ {k} |-> f[x]]
Put(f, k, v) == [x \in DOMAIN f \cup {k} |-> IF x = k THEN v ELSE f[x]]

(***************************************************************************)
(* Objects                                                                 *)
(***************************************************************************)
NoServiceAccount ==
    [name |-> <<>>, namespace |-> <<>>, annotations |-> EmptyMap, imagePullSecrets |-> <<>>]
NoSecret ==
    [name |-> "", namespace |-> <<>>, annotations |-> EmptyMap, data |-> EmptyMap, type |-> ""]
NoNamespace == [name |-> <<>>, annotations |-> EmptyMap]

ContainerStatus(waiting, reason) == [waiting |-> waiting, reason |-> reason]

(* The order in which a List call returns the Pods. *)
PodOrder == <<"p1", "p2", "p3">>

ListPods == [i \in 1..Len(SelectSeq(PodOrder, LAMBDA n : n \in DOMAIN pods)) |->
                pods[SelectSeq(PodOrder, LAMBDA n : n \in DOMAIN pods)[i]]]

(***************************************************************************)
(* A reconcile in progress.  pc names the API call the reconciler makes    *)
(* next; the other fields are its local variables and, from ripsRes on,    *)
(* a record of what this reconcile has done, kept until the next one.      *)
(***************************************************************************)
Idle(c) ==
    [ pc         |-> "idle",
      req        |-> IF c = "SA" THEN <<>> ELSE "",
      sa         |-> NoServiceAccount,      \* serviceAccount
      nsObj      |-> NoNamespace,           \* ns, in CleanupPodsForNamespace
      secretName |-> "",                    \* secretName of ReconcileImagePullSecret
      desired    |-> NoSecret,              \* desiredSecret
      found      |-> FALSE,                 \* the Get of the Secret found it
      secret     |-> NoSecret,              \* inClusterSecret, the base of the patch
      podList    |-> <<>>,
      pi         |-> 0,                     \* index into podList
      ci         |-> 0,                     \* index into the Pod's container statuses
      managed    |-> "unknown",             \* result of IsServiceAccountManaged
      ripsRes    |-> "none",                \* ReconcileImagePullSecret: none, ok, err
      changed    |-> FALSE,                 \* the bool ReconcileImagePullSecret returned
      res        |-> "none",                \* Reconcile: none, ok, err
      writes     |-> <<>>,                  \* the writes this reconcile has issued
      afterSettled |-> FALSE,               \* it began after a reconcile of req that settled
      afterCreate |-> FALSE,                \* it entered ReconcileImagePullSecret after a create
      extDuring  |-> FALSE ]                \* an external write happened since it began

Write(op, kind, name, obj) == [op |-> op, kind |-> kind, name |-> name, obj |-> obj]

(* Reconcile returns: the worker is free again; an error requeues the key. *)
Return(w, res) ==
    [w EXCEPT !.pc = "idle", !.res = res, !.podList = <<>>, !.pi = 0, !.ci = 0,
              !.ripsRes = IF @ = "none" /\ w.secretName # "" THEN "err" ELSE @]

(* Event filters (WithEventFilter): what a watch notification adds to the  *)
(* queues.                                                                 *)
(* Variant: the Secret predicate without its name clause. *)
SecretEvent_AnnotatedOnly(q, obj) ==
    IF HasAnnotation(obj, AnnotationManagedBy, AnnotationAppName)
    THEN [q EXCEPT !.Secret = @ \cup {obj.name}] ELSE q

SecretEvent(q, obj) ==
    IF IsManagedSecret(cfg, ns, obj) THEN [q EXCEPT !.Secret = @ \cup {obj.name}] ELSE q

(* A variant that queues every ServiceAccount notification. *)
ServiceAccountEvent_Unfiltered(q, obj) == [q EXCEPT !.SA = @ \cup {obj.name}]

ServiceAccountEvent(q, obj) ==
    IF IsServiceAccountManaged(cfg, ns, obj) THEN [q EXCEPT !.SA = @ \cup {obj.name}] ELSE q

(* One step of controller c: its worker becomes w2, the queues become q    *)
(* (the events of this step added) plus the key when Reconcile failed.     *)
Step(c, w2, q) ==
    /\ worker' = [worker EXCEPT ![c] = w2]
    /\ queue' = [q EXCEPT ![c] = IF w2.pc = "idle" /\ w2.res = "err"
                                 THEN @ \cup {w2.req} ELSE @]
    /\ hist' = [hist EXCEPT
                   !.settled = IF /\ c = "SA" /\ w2.pc = "idle" /\ w2.res = "ok"
                                  /\ w2.managed = "yes" /\ ~w2.extDuring
                               THEN @ \cup {w2.req} ELSE @,
                   !.created = @ \/ (Len(w2.writes) > Len(worker[c].writes)
                                      /\ w2.writes[Len(w2.writes)].op = "create")]

(***************************************************************************)
(* ReconcileImagePullSecret, run by both controllers                       *)
(***************************************************************************)

(* includeImagePullSecret *)
(* Variant: the reference is never recognised as present. *)
includeImagePullSecret_Never(sa, secretName) == FALSE

(* Variant: only the first entry of the list is looked at. *)
includeImagePullSecret_FirstOnly(sa, secretName) ==
    sa.imagePullSecrets # <<>> /\ sa.imagePullSecrets[1] = secretName

includeImagePullSecret(sa, secretName) ==
    \E i \in 1..Len(sa.imagePullSecrets) : sa.imagePullSecrets[i] = secretName

(* getPatchedServiceAccount *)
(* Variant: the list is replaced by the single reference. *)
getPatchedServiceAccount_Replace(sa, secretName) ==
    IF \E i \in 1..Len(sa.imagePullSecrets) : sa.imagePullSecrets[i] = secretName
    THEN sa
    ELSE [sa EXCEPT !.imagePullSecrets = <<secretName>>]

getPatchedServiceAccount(sa, secretName) ==
    IF ~includeImagePullSecret(sa, secretName)
    THEN [sa EXCEPT !.imagePullSecrets = Append(@, secretName)]
    ELSE sa

(* CleanupPodsForSA / CleanupPodsForNamespace: the container status that   *)
(* makes the reconciler delete the Pod.                                    *)
(* Variant: any waiting container counts. *)
IsUnauthorized_AnyWaiting(containerStatus) == containerStatus.waiting

IsUnauthorized(containerStatus) ==
    /\ containerStatus.waiting
    /\ containerStatus.reason = "ErrImagePull" \/ containerStatus.reason = "ImagePullBackOff"

(* The first container status of pod, from index from on, that asks for a  *)
(* delete; 0 when there is none.                                           *)
NextUnauthorized(pod, from) ==
    LET hits == {i \in from..Len(pod.containerStatuses) :
                    IsUnauthorized(pod.containerStatuses[i])}
    IN  IF hits = {} THEN 0 ELSE CHOOSE i \in hits : \A j \in hits : i <= j

(* CleanupPodsForSA: the next (pod, container) at or after (pi, ci) that   *)
(* asks for a delete; <<0, 0>> when the loops are over.                    *)
NextDeleteForSA(podList, serviceAccount, pi, ci) ==
    LET hits == {p \in pi..Len(podList) :
                    /\ podList[p].serviceAccountName = serviceAccount
                    /\ NextUnauthorized(podList[p], IF p = pi THEN ci ELSE 1) # 0}
    IN  IF hits = {} THEN <<0, 0>>
        ELSE LET p == CHOOSE x \in hits : \A y \in hits : x <= y
             IN  <<p, NextUnauthorized(podList[p], IF p = pi THEN ci ELSE 1)>>

(* ServiceAccountReconciler.Reconcile after ReconcileImagePullSecret has   *)
(* returned without error: patch the ServiceAccount unless it already      *)
(* holds the reference.                                                    *)
ServiceAccountAfterSecret(w) ==
    IF w.sa.imagePullSecrets # getPatchedServiceAccount(w.sa, cfg.SecretName).imagePullSecrets
    THEN [w EXCEPT !.pc = "PatchServiceAccount"]
    ELSE Return(w, "ok")

(* SecretReconciler.Reconcile after ReconcileImagePullSecret has returned  *)
(* without error: clean up the namespace's Pods when the Secret changed.   *)
SecretAfterSecret(w) ==
    IF w.changed THEN [w EXCEPT !.pc = "ListPodsForNamespace"] ELSE Return(w, "ok")

(* ReconcileImagePullSecret returns (changed, nil) to its caller. *)
ReconcileImagePullSecretReturns(c, w, changed) ==
    LET w2 == [w EXCEPT !.ripsRes = "ok", !.changed = changed]
    IN  IF c = "SA" THEN ServiceAccountAfterSecret(w2) ELSE SecretAfterSecret(w2)

(* The call of ReconcileImagePullSecret: ConstructImagePullSecret, then    *)
(* the Get of the Secret is next.                                          *)
(* A variant that goes on to fetch the Secret when the credential cannot   *)
(* be resolved.                                                            *)
ReconcileImagePullSecretEnter_IgnoreError(w, secretName, namespace) ==
    LET d == ConstructImagePullSecret(cfg, namespace)
    IN  [w EXCEPT !.secretName = secretName, !.desired = d.secret,
                  !.afterCreate = hist.created, !.pc = "GetSecret"]

ReconcileImagePullSecretEnter(w, secretName, namespace) ==
    LET d == ConstructImagePullSecret(cfg, namespace)
        w2 == [w EXCEPT !.secretName = secretName, !.desired = d.secret,
                        !.afterCreate = hist.created]
    IN  IF d.err THEN Return(w2, "err") ELSE [w2 EXCEPT !.pc = "GetSecret"]

(* doPatch *)
(* Variant: the Secret is patched on every reconcile. *)
NeedsPatch_Always(inClusterSecret, desiredSecret) == TRUE

(* Variant: only the annotations are compared. *)
NeedsPatch_AnnotationsOnly(inClusterSecret, desiredSecret) ==
    inClusterSecret.annotations # desiredSecret.annotations

NeedsPatch(inClusterSecret, desiredSecret) ==
    \/ inClusterSecret.annotations # desiredSecret.annotations
    \/ inClusterSecret.data # desiredSecret.data

(* k8sClient.Get of the Secret *)
GetSecret(c) ==
    LET w == worker[c] IN
    /\ w.pc = "GetSecret"
    /\ IF w.secretName \notin DOMAIN secrets
       THEN Step(c, [w EXCEPT !.pc = "CreateSecret", !.found = FALSE], queue)
       ELSE LET w2 == [w EXCEPT !.found = TRUE, !.secret = secrets[w.secretName]]
            IN  IF NeedsPatch(w2.secret, w.desired)
                THEN Step(c, [w2 EXCEPT !.pc = "PatchSecret"], queue)
                ELSE Step(c, ReconcileImagePullSecretReturns(c, w2, FALSE), queue)
    /\ UNCHANGED <<cfg, file, watcher, call, store, budget>>

(* k8sClient.Create(desiredSecret) *)
CreateSecret(c) ==
    LET w == worker[c] IN
    /\ w.pc = "CreateSecret"
    /\ IF w.desired.name \in DOMAIN secrets
       THEN /\ Step(c, Return(w, "err"), queue)
            /\ UNCHANGED secrets
       ELSE /\ secrets' = Put(secrets, w.desired.name, w.desired)
            /\ Step(c, ReconcileImagePullSecretReturns(c,
                         [w EXCEPT !.writes = Append(@,
                             Write("create", "Secret", w.desired.name, w.desired))], TRUE),
                    SecretEvent(queue, w.desired))
    /\ UNCHANGED <<cfg, file, watcher, call, ns, serviceAccounts, pods, budget>>

(* k8sClient.Patch(secret, patchFrom) *)
(* A variant that replaces the live object by the desired one. *)
PatchedSecret_Replace(live, w) == w.desired

PatchedSecret(live, w) ==
    [live EXCEPT
        !.annotations = ApplyMapPatch(@, MergeFromMap(w.secret.annotations, w.desired.annotations)),
        !.data = ApplyMapPatch(@, MergeFromMap(w.secret.data, w.desired.data))]

PatchSecret(c) ==
    LET w == worker[c] IN
    /\ w.pc = "PatchSecret"
    /\ IF w.secret.name \notin DOMAIN secrets
       THEN /\ Step(c, Return(w, "err"), queue)
            /\ UNCHANGED secrets
       ELSE LET new == PatchedSecret(secrets[w.secret.name], w) IN
            /\ secrets' = [secrets EXCEPT ![w.secret.name] = new]
            /\ Step(c, ReconcileImagePullSecretReturns(c,
                         [w EXCEPT !.writes = Append(@,
                             Write("patch", "Secret", w.secret.name, new))], TRUE),
                    SecretEvent(queue, new))
    /\ UNCHANGED <<cfg, file, watcher, call, ns, serviceAccounts, pods, budget>>

(***************************************************************************)
(* ServiceAccountReconciler.Reconcile                                      *)
(***************************************************************************)

(* r.Get(ctx, req.NamespacedName, serviceAccount) *)
(* A variant that takes a ServiceAccount that is not found as done. *)
GetServiceAccount_IgnoreNotFound ==
    LET w == worker["SA"] IN
    /\ w.pc = "GetServiceAccount"
    /\ IF w.req \notin DOMAIN serviceAccounts
       THEN Step("SA", Return(w, "ok"), queue)
       ELSE Step("SA", [w EXCEPT !.pc = "FetchNamespace", !.sa = serviceAccounts[w.req]], queue)
    /\ UNCHANGED <<cfg, file, watcher, call, store, budget>>

GetServiceAccount ==
    LET w == worker["SA"] IN
    /\ w.pc = "GetServiceAccount"
    /\ IF w.req \notin DOMAIN serviceAccounts
       THEN Step("SA", Return(w, "err"), queue)
       ELSE Step("SA", [w EXCEPT !.pc = "FetchNamespace", !.sa = serviceAccounts[w.req]], queue)
    /\ UNCHANGED <<cfg, file, watcher, call, store, budget>>

(* utils.FetchNamespace, the IsServiceAccountManaged test and the call of  *)
(* ReconcileImagePullSecret                                                *)
(* Variant: the ServiceAccount is patched without reconciling the Secret. *)
ServiceAccountManagedTest_SkipSecret(w, namespace) ==
    IF ~IsServiceAccountManaged(cfg, namespace, w.sa)
    THEN Return([w EXCEPT !.managed = "no"], "ok")
    ELSE ServiceAccountAfterSecret([w EXCEPT !.managed = "yes"])

(* Variant: the managed test is not consulted. *)
ServiceAccountManagedTest_Ignored(w, namespace) ==
    ReconcileImagePullSecretEnter(
        [w EXCEPT !.managed = IF IsServiceAccountManaged(cfg, namespace, w.sa)
                              THEN "yes" ELSE "no"],
        cfg.SecretName, w.sa.namespace)

ServiceAccountManagedTest(w, namespace) ==
    IF ~IsServiceAccountManaged(cfg, namespace, w.sa)
    THEN Return([w EXCEPT !.managed = "no"], "ok")
    ELSE ReconcileImagePullSecretEnter([w EXCEPT !.managed = "yes"],
                                       cfg.SecretName, w.sa.namespace)

FetchNamespace ==
    LET w == worker["SA"] IN
    /\ w.pc = "FetchNamespace"
    /\ Step("SA", ServiceAccountManagedTest(w, ns), queue)
    /\ UNCHANGED <<cfg, file, watcher, call, store, budget>>

(* The CleanupPodsForSA loops from position (pi, ci) on. *)
CleanupPodsForSAFrom(w, podList, pi, ci) ==
    LET next == NextDeleteForSA(podList, w.sa.name, pi, ci) IN
    IF next = <<0, 0>> THEN Return(w, "ok")
    ELSE [w EXCEPT !.pc = "DeletePodForSA", !.podList = podList,
                   !.pi = next[1], !.ci = next[2]]

(* r.Patch(ctx, patchedServiceAccount, patchFrom) *)
(* A variant that cleans up whether or not the feature is enabled. *)
ServiceAccountAfterPatch_Always(w) == [w EXCEPT !.pc = "ListPodsForSA"]

ServiceAccountAfterPatch(w) ==
    IF cfg.FeatureDeletePods THEN [w EXCEPT !.pc = "ListPodsForSA"] ELSE Return(w, "ok")

PatchServiceAccount ==
    LET w == worker["SA"] IN
    /\ w.pc = "PatchServiceAccount"
    /\ IF w.req \notin DOMAIN serviceAccounts
       THEN /\ Step("SA", Return(w, "err"), queue)
            /\ UNCHANGED serviceAccounts
       ELSE LET new == [serviceAccounts[w.req] EXCEPT !.imagePullSecrets =
                           getPatchedServiceAccount(w.sa, cfg.SecretName).imagePullSecrets]
            IN  /\ serviceAccounts' = [serviceAccounts EXCEPT ![w.req] = new]
                /\ Step("SA", ServiceAccountAfterPatch(
                                [w EXCEPT !.writes = Append(@,
                                    Write("patch", "ServiceAccount", w.req, new))]),
                        ServiceAccountEvent(queue, new))
    /\ UNCHANGED <<cfg, file, watcher, call, ns, secrets, pods, budget>>

(* CleanupPodsForSA: k8sClient.List *)
ListPodsForSA ==
    LET w == worker["SA"] IN
    /\ w.pc = "ListPodsForSA"
    /\ Step("SA", CleanupPodsForSAFrom(w, ListPods, 1, 1), queue)
    /\ UNCHANGED <<cfg, file, watcher, call, store, budget>>

(* CleanupPodsForSA: k8sClient.Delete(&pod) *)
DeletePodForSA ==
    LET w == worker["SA"]
        pod == w.podList[w.pi]
    IN
    /\ w.pc = "DeletePodForSA"
    /\ IF pod.name \notin DOMAIN pods
       THEN /\ Step("SA", Return(w, "err"), queue)
            /\ UNCHANGED pods
       ELSE /\ pods' = Remove(pods, pod.name)
            /\ Step("SA", CleanupPodsForSAFrom(
                            [w EXCEPT !.writes = Append(@, Write("delete", "Pod", pod.name, pod))],
                            w.podList, w.pi, w.ci + 1),
                    queue)
    /\ UNCHANGED <<cfg, file, watcher, call, ns, serviceAccounts, secrets, budget>>

(***************************************************************************)
(* SecretReconciler.Reconcile: CleanupPodsForNamespace                     *)
(***************************************************************************)

(* The loop over podList reaches index pi. *)
CleanupPodsForNamespaceAt(w, podList, pi) ==
    IF pi > Len(podList) THEN Return(w, "ok")
    ELSE [w EXCEPT !.pc = "PodFetchNamespace", !.podList = podList, !.pi = pi, !.ci = 0]

(* k8sClient.List *)
ListPodsForNamespace ==
    LET w == worker["Secret"] IN
    /\ w.pc = "ListPodsForNamespace"
    /\ Step("Secret", CleanupPodsForNamespaceAt(w, ListPods, 1), queue)
    /\ UNCHANGED <<cfg, file, watcher, call, store, budget>>

(* FetchNamespace, once for every Pod *)
PodFetchNamespace ==
    LET w == worker["Secret"] IN
    /\ w.pc = "PodFetchNamespace"
    /\ Step("Secret", [w EXCEPT !.pc = "PodFetchServiceAccount", !.nsObj = ns], queue)
    /\ UNCHANGED <<cfg, file, watcher, call, store, budget>>

(* After the IsServiceAccountManaged test of the Pod's ServiceAccount: the *)
(* loop over the Pod's container statuses from index ci on.                *)
CleanupPodFrom(w, ci) ==
    LET next == NextUnauthorized(w.podList[w.pi], ci) IN
    IF next = 0 THEN CleanupPodsForNamespaceAt(w, w.podList, w.pi + 1)
    ELSE [w EXCEPT !.pc = "DeletePodForNamespace", !.ci = next]

(* A variant that takes every Pod's ServiceAccount as managed. *)
PodManagedTest_Unscoped(w, sa) ==
    CleanupPodFrom([w EXCEPT !.sa = sa, !.managed = "yes"], 1)

PodManagedTest(w, sa) ==
    IF ~IsServiceAccountManaged(cfg, w.nsObj, sa)
    THEN CleanupPodsForNamespaceAt([w EXCEPT !.sa = sa, !.managed = "no"], w.podList, w.pi + 1)
    ELSE CleanupPodFrom([w EXCEPT !.sa = sa, !.managed = "yes"], 1)

(* FetchServiceAccount of the Pod's ServiceAccount *)
PodFetchServiceAccount ==
    LET w == worker["Secret"]
        pod == w.podList[w.pi]
    IN
    /\ w.pc = "PodFetchServiceAccount"
    /\ IF pod.serviceAccountName \notin DOMAIN serviceAccounts
       THEN Step("Secret", Return(w, "err"), queue)
       ELSE Step("Secret", PodManagedTest(w, serviceAccounts[pod.serviceAccountName]), queue)
    /\ UNCHANGED <<cfg, file, watcher, call, store, budget>>

(* k8sClient.Delete(&pod) *)
DeletePodForNamespace ==
    LET w == worker["Secret"]
        pod == w.podList[w.pi]
    IN
    /\ w.pc = "DeletePodForNamespace"
    /\ IF pod.name \notin DOMAIN pods
       THEN /\ Step("Secret", Return(w, "err"), queue)
            /\ UNCHANGED pods
       ELSE /\ pods' = Remove(pods, pod.name)
            /\ Step("Secret", CleanupPodFrom(
                                [w EXCEPT !.writes = Append(@, Write("delete", "Pod", pod.name, pod))],
                                w.ci + 1),
                    queue)
    /\ UNCHANGED <<cfg, file, watcher, call, ns, serviceAccounts, secrets, budget>>

(***************************************************************************)
(* The controllers' workers, the API server's failures, other writers      *)
(***************************************************************************)

(* A worker takes a key off its queue and calls Reconcile. *)
StartReconcile(c) ==
    /\ worker[c].pc = "idle"
    /\ \E k \in queue[c] :
         Step(c, IF c = "SA"
                 THEN [Idle(c) EXCEPT !.pc = "GetServiceAccount", !.req = k,
                                      !.afterSettled = k \in hist.settled]
                 ELSE ReconcileImagePullSecretEnter([Idle(c) EXCEPT !.req = k], k, ns.name),
              [queue EXCEPT ![c] = @ \ {k}])
    /\ UNCHANGED <<cfg, file, watcher, call, store, budget>>

(* The API call a reconciler is about to make fails. *)
(* A variant in which the ServiceAccount reconciler goes on after a failed *)
(* call on the Secret.                                                     *)
ApiError_SecretIgnored(c) ==
    /\ worker[c].pc # "idle"
    /\ budget > 0
    /\ budget' = budget - 1
    /\ Step(c, IF c = "SA" /\ worker[c].pc \in {"GetSecret", "CreateSecret", "PatchSecret"}
               THEN ServiceAccountAfterSecret([worker[c] EXCEPT !.ripsRes = "err"])
               ELSE Return(worker[c], "err"),
            queue)
    /\ UNCHANGED <<cfg, file, watcher, call, store>>

ApiError(c) ==
    /\ worker[c].pc # "idle"
    /\ budget > 0
    /\ budget' = budget - 1
    /\ Step(c, Return(worker[c], "err"), queue)
    /\ UNCHANGED <<cfg, file, watcher, call, store>>

(* Another writer (a user, another controller) changes an object. *)
External(q) ==
    /\ budget > 0
    /\ budget' = budget - 1
    /\ queue' = q
    /\ worker' = [c \in Controllers |->
                     IF worker[c].pc = "idle" THEN Idle(c)
                     ELSE [worker[c] EXCEPT !.extDuring = TRUE]]
    /\ hist' = [hist EXCEPT !.settled = {}, !.created = FALSE]
    /\ UNCHANGED <<cfg, file, watcher, call>>

SecretVariants ==
    { [annotations |-> EmptyMap,
       data |-> (DockerConfigJsonKey :> "stale"),
       type |-> "Opaque"],
      [annotations |-> (AnnotationManagedBy :> AnnotationAppName) @@ ("note" :> "x"),
       data |-> (DockerConfigJsonKey :> Credential) @@ ("extra" :> "x"),
       type |-> SecretTypeDockerConfigJson],
      [annotations |-> (AnnotationManagedBy :> AnnotationAppName),
       data |-> EmptyMap,
       type |-> SecretTypeDockerConfigJson] }

MakeSecret(name, v) ==
    [name |-> name, namespace |-> ns.name, annotations |-> v.annotations,
     data |-> v.data, type |-> v.type]

(* A Secret's type cannot be changed once it exists. *)
ExternalWriteSecret ==
    \E v \in SecretVariants :
        LET name == cfg.SecretName
            new == IF name \in DOMAIN secrets
                   THEN [secrets[name] EXCEPT !.annotations = v.annotations, !.data = v.data]
                   ELSE MakeSecret(name, v)
        IN  /\ name \in DOMAIN secrets => new # secrets[name]
            /\ secrets' = Put(secrets, name, new)
            /\ External(SecretEvent(queue, new))
            /\ UNCHANGED <<ns, serviceAccounts, pods>>

ExternalDeleteSecret ==
    \E name \in DOMAIN secrets :
        /\ secrets' = Remove(secrets, name)
        /\ External(SecretEvent(queue, secrets[name]))
        /\ UNCHANGED <<ns, serviceAccounts, pods>>

OtherSecretName == "other-secret"

ServiceAccountChange(sa, change) ==
    CASE change = "addRef" ->
           [sa EXCEPT !.imagePullSecrets =
               IF \E i \in 1..Len(@) : @[i] = OtherSecretName THEN @
               ELSE Append(@, OtherSecretName)]
      [] change = "dropRefs" -> [sa EXCEPT !.imagePullSecrets = <<>>]
      [] change = "exclude" ->
           [sa EXCEPT !.annotations = Put(@, cfg.ExcludeAnnotation, "true")]
      [] change = "include" ->
           [sa EXCEPT !.annotations = Remove(@, cfg.ExcludeAnnotation)]

ExternalWriteServiceAccount ==
    \E name \in DOMAIN serviceAccounts \cap {Str_default} :
    \E change \in {"addRef", "dropRefs", "exclude", "include"} :
        LET new == ServiceAccountChange(serviceAccounts[name], change) IN
        /\ new # serviceAccounts[name]
        /\ serviceAccounts' = [serviceAccounts EXCEPT ![name] = new]
        /\ External(ServiceAccountEvent(queue, new))
        /\ UNCHANGED <<ns, secrets, pods>>

(***************************************************************************)
(* Initial states: the cluster as the operator finds it when it starts.    *)
(* The informers' first list delivers a create notification for every      *)
(* object.                                                                 *)
(***************************************************************************)
MakeServiceAccount(name, namespace, annotations, imagePullSecrets) ==
    [name |-> name, namespace |-> namespace, annotations |-> annotations,
     imagePullSecrets |-> imagePullSecrets]

MakePod(name, serviceAccountName, containerStatuses) ==
    [name |-> name, serviceAccountName |-> serviceAccountName,
     containerStatuses |-> containerStatuses]

InitNamespaces ==
    { [name |-> Str_ns1, annotations |-> EmptyMap],
      [name |-> Str_ns1, annotations |-> ("pborn.eu/imagepullsecret-patcher-exclude" :> "true")],
      [name |-> Str_kube_system, annotations |-> EmptyMap] }

InitPods ==
    ("p1" :> MakePod("p1", Str_default,
                <<ContainerStatus(TRUE, "ErrImagePull"), ContainerStatus(TRUE, "ImagePullBackOff")>>))
    @@ ("p2" :> MakePod("p2", Str_builder, <<ContainerStatus(TRUE, "ErrImagePull")>>))
    @@ ("p3" :> MakePod("p3", Str_default,
                <<ContainerStatus(FALSE, ""), ContainerStatus(TRUE, "CrashLoopBackOff")>>))

(* No file is watched when the credential is given inline. *)
NoWatcher == [pc |-> "off", initialStat |-> 0, items |-> <<>>]

NoCall == [fn |-> "none"]

(* History: the ServiceAccounts whose reconcile has succeeded, whether a   *)
(* Secret has been created, and what the watcher was doing when the        *)
(* credential file last changed.                                           *)
NoHistory == [settled |-> {}, created |-> FALSE, changeAt |-> "none"]

InitialEvents(sas, secs) ==
    [ SA |-> {n \in DOMAIN sas : IsServiceAccountManaged(cfg, ns, sas[n])},
      Secret |-> {n \in DOMAIN secs : IsManagedSecret(cfg, ns, secs[n])} ]

Init ==
    /\ cfg \in {NewConfig(TRUE), NewConfig(FALSE)}
    /\ file = [readable |-> FALSE, content |-> "", modTime |-> 0]
    /\ ns \in InitNamespaces
    /\ \E ips \in {<<>>, <<OtherSecretName>>} :
         serviceAccounts =
             (Str_default :> MakeServiceAccount(Str_default, ns.name, EmptyMap, ips))
             @@ (Str_builder :> MakeServiceAccount(Str_builder, ns.name, EmptyMap, <<>>))
    /\ secrets \in {EmptyMap} \cup
                   {(cfg.SecretName :> MakeSecret(cfg.SecretName, v)) :
                        v \in {x \in SecretVariants : x.type = "Opaque"}}
    /\ pods = InitPods
    /\ queue = InitialEvents(serviceAccounts, secrets)
    /\ worker = [c \in Controllers |-> Idle(c)]
    /\ budget = MaxDisturbances
    /\ hist = NoHistory
    /\ watcher = NoWatcher
    /\ call = NoCall

Next ==
    \/ \E c \in Controllers : StartReconcile(c)
    \/ \E c \in Controllers : GetSecret(c)
    \/ \E c \in Controllers : CreateSecret(c)
    \/ \E c \in Controllers : PatchSecret(c)
    \/ GetServiceAccount
    \/ FetchNamespace
    \/ PatchServiceAccount
    \/ ListPodsForSA
    \/ DeletePodForSA
    \/ ListPodsForNamespace
    \/ PodFetchNamespace
    \/ PodFetchServiceAccount
    \/ DeletePodForNamespace
    \/ \E c \in Controllers : ApiError(c)
    \/ ExternalWriteSecret
    \/ ExternalDeleteSecret
    \/ ExternalWriteServiceAccount

Spec == Init /\ [][Next]_vars

(* The reconcilers called directly, as the controller tests call them:     *)
(* every ServiceAccount and every Secret is in the queue at the start,     *)
(* whatever the event filters say.                                         *)
InitDirect ==
    /\ cfg = NewConfig(TRUE)
    /\ Init!2 /\ Init!3 /\ Init!4
    /\ secrets = EmptyMap
    /\ Init!6
    /\ queue = [SA |-> DOMAIN serviceAccounts, Secret |-> {}]
    /\ Init!8 /\ Init!9 /\ Init!10 /\ Init!11 /\ Init!12

SpecDirect == InitDirect /\ [][Next]_vars

(***************************************************************************)
(* The credential file and its watcher (SecretReconciler.SetupWithManager, *)
(* when DockerConfigJSONPath is set): a goroutine that waits for the file  *)
(* to change, lists the Secrets and sends a generic event for each one     *)
(* that is managed.                                                        *)
(***************************************************************************)
CredentialPath == "/credentials/.dockerconfigjson"

NewConfigFromPath(deletePods) ==
    [NewConfig(deletePods) EXCEPT !.DockerConfigJSON = "",
                                  !.DockerConfigJSONPath = CredentialPath]

(* Bound: the number of times the credential file changes in one behaviour. *)
MaxFileChanges == 2

FileContents == {Credential, "cred2"}

(* The mounted file is replaced: new content, new modification time. *)
FileChange ==
    /\ file.readable
    /\ file.modTime < MaxFileChanges
    /\ \E content \in FileContents \ {file.content} :
          file' = [file EXCEPT !.content = content, !.modTime = @ + 1]
    /\ hist' = [hist EXCEPT !.changeAt = watcher.pc]
    /\ UNCHANGED <<cfg, store, queue, worker, budget, watcher, call>>

(* A Secret of another name that carries the managed-by annotation. *)
LegacySecretName == "legacy-imagepullsecret"

(* The order in which a List call returns the Secrets. *)
SecretOrder == <<"global-imagepullsecret", LegacySecretName, OtherSecretName>>

ListSecrets == [i \in 1..Len(SelectSeq(SecretOrder, LAMBDA n : n \in DOMAIN secrets)) |->
                   secrets[SelectSeq(SecretOrder, LAMBDA n : n \in DOMAIN secrets)[i]]]

(* os.Stat failed: the FileInfo it returned is nil. *)
NilStat == -1

(* utils.WaitUntilFileChanges: initialStat, _ := os.Stat(filename); the    *)
(* error is dropped.                                                       *)
WaitUntilFileChangesEnter ==
    /\ watcher.pc = "stat"
    /\ watcher' = [watcher EXCEPT !.pc = "poll",
                                  !.initialStat = IF file.readable THEN file.modTime
                                                  ELSE NilStat]
    /\ UNCHANGED <<cfg, file, store, queue, worker, budget, hist, call>>

(* utils.WaitUntilFileChanges: the poll that sees another ModTime; a poll  *)
(* that cannot read the file or sees the same ModTime changes nothing.     *)
(* initialStat.ModTime() on the nil FileInfo is a nil dereference: the     *)
(* goroutine panics and the process ends.                                  *)
WaitUntilFileChangesPoll ==
    /\ watcher.pc = "poll"
    /\ file.readable
    /\ IF watcher.initialStat = NilStat
       THEN watcher' = [watcher EXCEPT !.pc = "panic"]
       ELSE /\ file.modTime # watcher.initialStat
            /\ watcher' = [watcher EXCEPT !.pc = "list"]
    /\ UNCHANGED <<cfg, file, store, queue, worker, budget, hist, call>>

(* The loop over secretList.Items is entered, or is over at once. *)
WatcherAfterList(items) ==
    [watcher EXCEPT !.pc = IF items = <<>> THEN "stat" ELSE "send", !.items = items]

(* r.Client.List(ctx, secretList) *)
WatcherList ==
    /\ watcher.pc = "list"
    /\ watcher' = WatcherAfterList(ListSecrets)
    /\ UNCHANGED <<cfg, file, store, queue, worker, budget, hist, call>>

(* r.Client.List fails: the error is logged and the loop runs over the     *)
(* empty list.                                                             *)
WatcherListError ==
    /\ watcher.pc = "list"
    /\ budget > 0
    /\ budget' = budget - 1
    /\ watcher' = WatcherAfterList(<<>>)
    /\ UNCHANGED <<cfg, file, store, queue, worker, hist, call>>

(* One iteration of the loop: the Secret's namespace is fetched, and if the *)
(* Secret is managed a GenericEvent is sent to the controller's channel    *)
(* source, which passes it through the event filter and enqueues it.       *)
WatcherSend ==
    /\ watcher.pc = "send"
    /\ LET d == Head(watcher.items) IN
       queue' = IF IsManagedSecret(cfg, ns, d) THEN SecretEvent(queue, d) ELSE queue
    /\ watcher' = WatcherAfterList(Tail(watcher.items))
    /\ UNCHANGED <<cfg, file, store, worker, budget, hist, call>>

WatcherStep ==
    \/ WaitUntilFileChangesEnter
    \/ WaitUntilFileChangesPoll
    \/ WatcherList
    \/ WatcherSend

(***************************************************************************)
(* Properties                                                              *)
(***************************************************************************)
SAWorker == worker["SA"]

(* The writes of kind `kind` in a reconcile's record. *)
WritesOf(w, kind) == {i \in 1..Len(w.writes) : w.writes[i].kind = kind}

(* Controller c issues a write of kind `kind` in this step. *)
Issues(c, kind) ==
    /\ Len(worker'[c].writes) = Len(worker[c].writes) + 1
    /\ worker'[c].writes[Len(worker'[c].writes)].kind = kind

LiveSecretIsDesired(w) ==
    /\ w.secretName \in DOMAIN secrets
    /\ secrets[w.secretName].data = w.desired.data
    /\ secrets[w.secretName].annotations = w.desired.annotations

\* C1: a ServiceAccount reconcile patches the ServiceAccount only after its
\* Secret step has succeeded; when the Secret did not exist, the first write of
\* the reconcile is the create of the Secret (configured name, this namespace,
\* .dockerconfigjson = the configured credential), and the patch that follows
\* leaves the reference to it in the ServiceAccount's imagePullSecrets.
C1_SecretBeforeAttach ==
    LET w == SAWorker IN
    /\ w.pc = "PatchServiceAccount" => w.ripsRes = "ok"
    /\ \A i \in WritesOf(w, "ServiceAccount") :
         /\ w.ripsRes = "ok"
         /\ includeImagePullSecret(w.writes[i].obj, cfg.SecretName)
         /\ ~w.found =>
              /\ i = 2
              /\ w.writes[1].op = "create" /\ w.writes[1].kind = "Secret"
              /\ w.writes[1].obj.name = cfg.SecretName
              /\ w.writes[1].obj.namespace = ns.name
              /\ w.writes[1].obj.data = (DockerConfigJsonKey :> cfg.DockerConfigJSON)

C1_Witness ==
    LET w == SAWorker IN
    /\ ~w.found /\ Len(w.writes) >= 2
    /\ w.writes[1].op = "create" /\ w.writes[2].kind = "ServiceAccount"
    /\ w.req \in DOMAIN serviceAccounts
    /\ includeImagePullSecret(serviceAccounts[w.req], cfg.SecretName)
    /\ cfg.SecretName \in DOMAIN secrets

\* C2: a reconcile of a ServiceAccount that begins after a reconcile of the same
\* ServiceAccount has succeeded, with no write by another writer since that one
\* began, issues no write at all.
C2_ServiceAccountIdempotent ==
    LET w == SAWorker IN
    (w.afterSettled /\ w.req \in hist.settled) =>
        /\ w.writes = <<>>
        /\ w.pc \notin {"CreateSecret", "PatchSecret", "PatchServiceAccount",
                        "ListPodsForSA", "DeletePodForSA"}

C2_Witness ==
    LET w == SAWorker IN
    /\ w.afterSettled /\ w.req \in hist.settled
    /\ w.pc = "idle" /\ w.res = "ok" /\ w.managed = "yes" /\ w.writes = <<>>

\* C3: a reconcile of a ServiceAccount that is not managed returns success and
\* issues no write; a reconcile that has issued a write is one of a managed
\* ServiceAccount.
C3_UnmanagedUntouched ==
    LET w == SAWorker IN
    /\ w.managed = "no" => w.writes = <<>> /\ w.pc = "idle" /\ w.res = "ok"
    /\ w.writes # <<>> => w.managed = "yes"
    /\ (w.writes # <<>> /\ ~w.extDuring) =>
          /\ w.req \in DOMAIN serviceAccounts
          /\ IsServiceAccountManaged(cfg, ns, serviceAccounts[w.req])

C3_Witness ==
    LET w == SAWorker IN
    /\ w.pc = "idle" /\ w.res = "ok" /\ w.managed = "no" /\ w.writes = <<>>
    /\ w.req = Str_builder
    /\ ~HasAnnotation(w.sa, cfg.ExcludeAnnotation, "true")
    /\ ~IsNamespaceExcluded(cfg, ns)
    /\ cfg.SecretName \notin DOMAIN secrets
    /\ "p2" \in DOMAIN pods

(* The other two ways of being unmanaged, after such a reconcile. *)
C3_ExcludedByAnnotation ==
    LET w == SAWorker IN
    /\ w.pc = "idle" /\ w.res = "ok" /\ w.managed = "no" /\ w.writes = <<>>
    /\ w.req = Str_default
    /\ HasAnnotation(w.sa, cfg.ExcludeAnnotation, "true")
    /\ ~IsNamespaceExcluded(cfg, ns)

C3_ExcludedNamespace ==
    LET w == SAWorker IN
    /\ w.pc = "idle" /\ w.res = "ok" /\ w.managed = "no" /\ w.writes = <<>>
    /\ w.req = Str_default
    /\ IsNamespaceExcluded(cfg, ns)

\* C4: an invocation of ReconcileImagePullSecret that does not find the Secret
\* creates it and returns changed = true; an invocation that begins after that,
\* with no write by another writer in between, issues neither a create nor a
\* patch and returns changed = false.
C4_SecretIdempotent ==
    \A c \in Controllers :
        LET w == worker[c] IN
        /\ (w.ripsRes = "ok" /\ ~w.found) =>
              /\ w.changed
              /\ \E i \in WritesOf(w, "Secret") : w.writes[i].op = "create"
        /\ (w.afterCreate /\ hist.created /\ ~w.extDuring) =>
              /\ w.pc \notin {"CreateSecret", "PatchSecret"}
              /\ WritesOf(w, "Secret") = {}
              /\ w.ripsRes = "ok" => ~w.changed

C4_Witness ==
    \E c \in Controllers :
        LET w == worker[c] IN
        /\ w.afterCreate /\ hist.created /\ ~w.extDuring
        /\ w.ripsRes = "ok" /\ ~w.changed /\ w.found

\* C5: when ReconcileImagePullSecret has returned without error and no other
\* writer has written since the reconcile began, the live Secret's data is the
\* desired data, and changed = true was returned if the data it found differed.
C5_SecretSelfHealing ==
    \A c \in Controllers :
        LET w == worker[c] IN
        (w.ripsRes = "ok" /\ ~w.extDuring) =>
            /\ w.secretName \in DOMAIN secrets
            /\ secrets[w.secretName].data = w.desired.data
            /\ (w.found /\ w.secret.data # w.desired.data) => w.changed

C5_Witness ==
    \E c \in Controllers :
        LET w == worker[c] IN
        /\ w.ripsRes = "ok" /\ ~w.extDuring /\ w.found /\ w.changed
        /\ HasAnnotation(w.secret, AnnotationManagedBy, AnnotationAppName)
        /\ w.secret.data # w.desired.data
        /\ secrets[w.secretName].data = w.desired.data

\* C6: when ReconcileImagePullSecret has returned without error (and
\* no other writer has written meanwhile), the live Secret has the type
\* kubernetes.io/dockerconfigjson, the credential under .dockerconfigjson and
\* the managed-by annotation, whether it was created or found.
C6_AsClaimed ==
    \A c \in Controllers :
        LET w == worker[c] IN
        (w.ripsRes = "ok" /\ ~w.extDuring) =>
            /\ w.secretName \in DOMAIN secrets
            /\ secrets[w.secretName].type = SecretTypeDockerConfigJson
            /\ DockerConfigJsonKey \in DOMAIN secrets[w.secretName].data
            /\ secrets[w.secretName].data[DockerConfigJsonKey] = GetDockerConfigJSON(cfg).val
            /\ HasAnnotation(secrets[w.secretName], AnnotationManagedBy, AnnotationAppName)

C6_Witness ==
    \E c \in Controllers :
        LET w == worker[c] IN
        /\ w.ripsRes = "ok" /\ ~w.extDuring /\ w.found /\ w.changed
        /\ w.secret.type = "Opaque"
        /\ ~HasAnnotation(w.secret, AnnotationManagedBy, AnnotationAppName)
        /\ secrets[w.secretName].type = "Opaque"
        /\ LiveSecretIsDesired(w)

\* C7: the patch of the ServiceAccount leaves, as its imagePullSecrets, the list
\* the reconciler fetched with the configured secretName appended at the end.
C7_AppendOnly ==
    [][Issues("SA", "ServiceAccount") =>
          serviceAccounts'[SAWorker.req].imagePullSecrets =
              Append(SAWorker.sa.imagePullSecrets, cfg.SecretName)]_vars

C7_Witness ==
    LET w == SAWorker IN
    /\ WritesOf(w, "ServiceAccount") # {}
    /\ w.sa.imagePullSecrets = <<OtherSecretName>>
    /\ w.req \in DOMAIN serviceAccounts
    /\ serviceAccounts[w.req].imagePullSecrets = <<OtherSecretName, cfg.SecretName>>

\* C8: the patch of the ServiceAccount never loses a reference that
\* another writer has put into the live imagePullSecrets list (a patch computed
\* against a stale read is rejected).
C8_NoLostUpdate ==
    [][Issues("SA", "ServiceAccount") =>
          \A i \in 1..Len(serviceAccounts[SAWorker.req].imagePullSecrets) :
              includeImagePullSecret(serviceAccounts'[SAWorker.req],
                                     serviceAccounts[SAWorker.req].imagePullSecrets[i])]_vars

\* C9: a controller deletes a Pod only if one of the Pod's container statuses
\* is Waiting with reason ErrImagePull or ImagePullBackOff and the Pod's
\* ServiceAccount is the one the reconcile found managed (and is managed in the
\* live state when no other writer has written meanwhile).
C9_OnlyUnauthorizedManagedPods ==
    [][\A c \in Controllers :
          Issues(c, "Pod") =>
              \E n \in DOMAIN pods \ DOMAIN pods' :
                 /\ DOMAIN pods' = DOMAIN pods \ {n}
                 /\ \E i \in 1..Len(pods[n].containerStatuses) :
                       /\ pods[n].containerStatuses[i].waiting
                       /\ pods[n].containerStatuses[i].reason \in {"ErrImagePull", "ImagePullBackOff"}
                 /\ worker[c].managed = "yes"
                 /\ worker[c].sa.name = pods[n].serviceAccountName
                 /\ ~worker[c].extDuring =>
                       /\ pods[n].serviceAccountName \in DOMAIN serviceAccounts
                       /\ IsServiceAccountManaged(cfg, ns,
                              serviceAccounts[pods[n].serviceAccountName])]_vars

C9_Witness ==
    /\ "p1" \notin DOMAIN pods /\ "p2" \in DOMAIN pods /\ "p3" \in DOMAIN pods
    /\ WritesOf(SAWorker, "Pod") # {}
    /\ ~IsServiceAccountManaged(cfg, ns, serviceAccounts[pods["p2"].serviceAccountName])
    /\ IsUnauthorized(pods["p2"].containerStatuses[1])
    /\ IsServiceAccountManaged(cfg, ns, serviceAccounts[pods["p3"].serviceAccountName])

(***************************************************************************)
(* Liveness.  A worker that has a key in its queue eventually takes one,   *)
(* and an API call that is pending eventually returns; failures and        *)
(* foreign writes are finitely many (MaxDisturbances).                     *)
(***************************************************************************)
ReconcileStep ==
    \/ \E c \in Controllers : StartReconcile(c)
    \/ \E c \in Controllers : GetSecret(c)
    \/ \E c \in Controllers : CreateSecret(c)
    \/ \E c \in Controllers : PatchSecret(c)
    \/ GetServiceAccount
    \/ FetchNamespace
    \/ PatchServiceAccount
    \/ ListPodsForSA
    \/ DeletePodForSA
    \/ ListPodsForNamespace
    \/ PodFetchNamespace
    \/ PodFetchServiceAccount
    \/ DeletePodForNamespace

InitLive ==
    /\ cfg = NewConfig(TRUE)
    /\ Init!2
    /\ ns = [name |-> Str_ns1, annotations |-> EmptyMap]
    /\ serviceAccounts =
             (Str_default :> MakeServiceAccount(Str_default, ns.name, EmptyMap, <<>>))
             @@ (Str_builder :> MakeServiceAccount(Str_builder, ns.name, EmptyMap, <<>>))
    /\ Init!5 /\ Init!6 /\ Init!7
    /\ Init!8 /\ Init!9 /\ Init!10 /\ Init!11 /\ Init!12

SpecLive == InitLive /\ [][Next]_vars /\ WF_vars(ReconcileStep)

ManagedServiceAccounts ==
    {n \in DOMAIN serviceAccounts : IsServiceAccountManaged(cfg, ns, serviceAccounts[n])}

SecretIsDesired ==
    /\ cfg.SecretName \in DOMAIN secrets
    /\ secrets[cfg.SecretName].data = (DockerConfigJsonKey :> GetDockerConfigJSON(cfg).val)
    /\ HasAnnotation(secrets[cfg.SecretName], AnnotationManagedBy, AnnotationAppName)

Converged ==
    /\ \A n \in ManagedServiceAccounts :
          includeImagePullSecret(serviceAccounts[n], cfg.SecretName)
    /\ ManagedServiceAccounts # {} => SecretIsDesired

ManagedBy == (AnnotationManagedBy :> AnnotationAppName)

InitWatch ==
    /\ cfg = NewConfigFromPath(TRUE)
    /\ file = [readable |-> TRUE, content |-> Credential, modTime |-> 0]
    /\ ns = [name |-> Str_ns1, annotations |-> EmptyMap]
    /\ serviceAccounts =
             (Str_default :> MakeServiceAccount(Str_default, ns.name, EmptyMap, <<>>))
             @@ (Str_builder :> MakeServiceAccount(Str_builder, ns.name, EmptyMap, <<>>))
    /\ secrets = (LegacySecretName :>
                     MakeSecret(LegacySecretName,
                                [annotations |-> ManagedBy,
                                 data |-> (DockerConfigJsonKey :> Credential),
                                 type |-> SecretTypeDockerConfigJson]))
    /\ pods = ("p1" :> MakePod("p1", Str_default, <<ContainerStatus(TRUE, "ErrImagePull")>>))
    /\ queue = InitialEvents(serviceAccounts, secrets)
    /\ worker = [c \in Controllers |-> Idle(c)]
    /\ budget = MaxDisturbances
    /\ hist = NoHistory
    /\ watcher = [pc |-> "stat", initialStat |-> 0, items |-> <<>>]
    /\ call = NoCall

NextWatch ==
    \/ ReconcileStep
    \/ WatcherStep
    \/ WatcherListError
    \/ FileChange

SpecWatch ==
    InitWatch /\ [][NextWatch]_vars /\ WF_vars(ReconcileStep) /\ WF_vars(WatcherStep)

ManagedSecrets == {n \in DOMAIN secrets : IsManagedSecret(cfg, ns, secrets[n])}

FileContentApplied ==
    \A n \in ManagedSecrets :
        secrets[n].data = (DockerConfigJsonKey :> file.content)

AtRest ==
    /\ watcher.pc = "poll" /\ watcher.initialStat = file.modTime
    /\ \A c \in Controllers : worker[c].pc = "idle" /\ queue[c] = {}

\* C11: with a file-based credential and no failing API call, when the
\* controllers and the watcher have come to rest (the watcher polls and sees
\* the modification time it started from, nothing is queued or running), every
\* managed Secret holds the file's latest content, also when the file last
\* changed while the watcher was listing the Secrets or sending notifications.
C11_NoMissedChange ==
    (AtRest /\ budget = MaxDisturbances /\ hist.changeAt \in {"list", "send"})
        => FileContentApplied

C11_Witness ==
    /\ AtRest /\ budget = MaxDisturbances /\ hist.changeAt = "send"
    /\ file.modTime = 2
    /\ ManagedSecrets = {cfg.SecretName, LegacySecretName}
    /\ secrets[cfg.SecretName].data # (DockerConfigJsonKey :> file.content)
    /\ secrets[LegacySecretName].data = (DockerConfigJsonKey :> file.content)


(***************************************************************************)
(* The operator over a namespace that holds one Secret from before: a      *)
(* managed Secret of another name (one that carries the managed-by         *)
(* annotation), or a Secret of the configured name that carries the        *)
(* exclude annotation.                                                     *)
(***************************************************************************)
(* A Secret with the configured name that its owner has annotated as       *)
(* excluded.                                                               *)
ExcludedSecret ==
    [annotations |-> ("pborn.eu/imagepullsecret-patcher-exclude" :> "true"),
     data |-> (DockerConfigJsonKey :> "stale"),
     type |-> SecretTypeDockerConfigJson]

InitLegacy ==
    /\ cfg = NewConfig(TRUE)
    /\ Init!2
    /\ InitWatch!3 /\ InitWatch!4
    /\ \/ InitWatch!5
       \/ secrets = (cfg.SecretName :> MakeSecret(cfg.SecretName, ExcludedSecret))
    /\ Init!6 /\ Init!7 /\ Init!8 /\ Init!9 /\ Init!10 /\ Init!11 /\ Init!12

SpecLegacy == InitLegacy /\ [][Next]_vars /\ WF_vars(ReconcileStep)

SecretWorker == worker["Secret"]

\* C12: a Secret-controller reconcile of a managed Secret that was deleted or
\* modified, once it has returned success with no other writer interfering,
\* leaves that Secret in place with the desired data (recreated when it was
\* not found, overwritten when it had drifted).
C12_SecretRestored ==
    LET w == SecretWorker IN
    (w.pc = "idle" /\ w.res = "ok" /\ ~w.extDuring) =>
        /\ w.req \in DOMAIN secrets
        /\ secrets[w.req].data = w.desired.data

C12_Witness ==
    LET w == SecretWorker IN
    /\ w.pc = "idle" /\ w.res = "ok" /\ ~w.extDuring
    /\ w.req = LegacySecretName /\ ~w.found
    /\ LegacySecretName \notin DOMAIN secrets
    /\ cfg.SecretName \in DOMAIN secrets
    /\ \E i \in WritesOf(w, "Secret") :
          w.writes[i].op = "create" /\ w.writes[i].name = cfg.SecretName


\* C13: the controllers never patch a Secret that carries the exclude
\* annotation set to "true" (such a Secret is not managed and its
\* notifications are not queued).
C13_ExcludedSecretUntouched ==
    [][\A c \in Controllers :
          (Issues(c, "Secret") /\ worker'[c].writes[Len(worker'[c].writes)].op = "patch") =>
              ~HasAnnotation(secrets[worker[c].secret.name], cfg.ExcludeAnnotation, "true")]_vars

C13_Witness ==
    \E c \in Controllers :
        LET w == worker[c] IN
        /\ w.ripsRes = "ok" /\ w.found /\ w.changed /\ ~w.extDuring
        /\ HasAnnotation(w.secret, cfg.ExcludeAnnotation, "true")
        /\ IsManagedSecret(cfg, ns, w.secret)
        /\ ~HasAnnotation(secrets[w.secretName], cfg.ExcludeAnnotation, "true")
        /\ secrets[w.secretName].data = w.desired.data

(***************************************************************************)
(* The classifiers as functions of their arguments                         *)
(*                                                                         *)
(* The classifiers read nothing but their arguments.  Each action below    *)
(* is one call: it draws the arguments from a bounded set and records      *)
(* them with the value returned.                                           *)
(***************************************************************************)
ExcludeKey == "pborn.eu/imagepullsecret-patcher-exclude"

Str_empty == <<>>
Str_star == <<"*">>
Str_default_builder == Str_default \o <<",">> \o Str_builder
Str_ns1_kube_glob == Str_ns1 \o <<",">> \o Str_kube_glob

ClassifierConfigs ==
    { [NewConfig(FALSE) EXCEPT !.SecretNamespace = secretNamespace,
                               !.ExcludedNamespaces = excludedNamespaces,
                               !.ServiceAccounts = serviceAccountNames] :
        secretNamespace \in {Str_kube_system, Str_ns1},
        excludedNamespaces \in {Str_kube_glob, Str_empty, Str_ns1_kube_glob},
        serviceAccountNames \in {Str_default, Str_default_builder, Str_star} }

ClassifierAnnotations ==
    { EmptyMap,
      (ExcludeKey :> "true"), (ExcludeKey :> "True"),
      (ExcludeKey :> "false"), (ExcludeKey :> "1"),
      (AnnotationManagedBy :> AnnotationAppName),
      (AnnotationManagedBy :> "helm") }

ClassifierNamespaces ==
    { [name |-> name, annotations |-> annotations] :
        name \in {Str_ns1, Str_kube_system},
        annotations \in {a \in ClassifierAnnotations : AnnotationManagedBy \notin DOMAIN a} }

ClassifierSecrets ==
    { [name |-> name, namespace |-> namespace, annotations |-> annotations,
       data |-> (DockerConfigJsonKey :> Credential),
       type |-> SecretTypeDockerConfigJson] :
        name \in {"global-imagepullsecret", LegacySecretName},
        namespace \in {Str_ns1, Str_kube_system},
        annotations \in {a \in ClassifierAnnotations :
                            a = EmptyMap \/ AnnotationManagedBy \in DOMAIN a
                                         \/ a = (ExcludeKey :> "true")} }

ClassifierServiceAccounts ==
    { MakeServiceAccount(name, Str_ns1, annotations, <<>>) :
        name \in {Str_default, Str_builder, <<"c","i">>},
        annotations \in {a \in ClassifierAnnotations : AnnotationManagedBy \notin DOMAIN a} }

CallIsManagedSecret ==
    /\ call = NoCall
    /\ \E c \in {k \in ClassifierConfigs : k.ServiceAccounts = Str_default},
          namespace \in ClassifierNamespaces, secret \in ClassifierSecrets :
          call' = [fn |-> "IsManagedSecret", c |-> c, namespace |-> namespace,
                   obj |-> secret, result |-> IsManagedSecret(c, namespace, secret)]
    /\ UNCHANGED <<cfg, file, store, queue, worker, budget, hist, watcher>>

CallIsServiceAccountManaged ==
    /\ call = NoCall
    /\ \E c \in {k \in ClassifierConfigs : k.SecretNamespace = Str_kube_system},
          namespace \in ClassifierNamespaces,
          serviceAccount \in ClassifierServiceAccounts :
          call' = [fn |-> "IsServiceAccountManaged", c |-> c,
                   namespace |-> namespace, obj |-> serviceAccount,
                   result |-> IsServiceAccountManaged(c, namespace, serviceAccount)]
    /\ UNCHANGED <<cfg, file, store, queue, worker, budget, hist, watcher>>

CallIsNamespaceExcluded ==
    /\ call = NoCall
    /\ \E c \in {k \in ClassifierConfigs : /\ k.SecretNamespace = Str_kube_system
                                           /\ k.ServiceAccounts = Str_default},
          namespace \in ClassifierNamespaces :
          call' = [fn |-> "IsNamespaceExcluded", c |-> c, namespace |-> namespace,
                   result |-> IsNamespaceExcluded(c, namespace)]
    /\ UNCHANGED <<cfg, file, store, queue, worker, budget, hist, watcher>>

(* Values and list entries short enough to enumerate every way a pattern   *)
(* can be laid over a value, and the lists of the README.                  *)
MaxGlobLen == 3

GlobValues ==
    { <<>>, <<"a">>, <<"b">>, <<"a","b">>, <<"a","c">>, <<"a","b","c">>,
      <<"a","/","b">> }

GlobEntries ==
    { <<>>, <<"a">>, <<"a","b">>, <<"*">>, <<"a","*">>, <<"*","c">>,
      <<"?","b">>, <<"a","?","c">> }

GlobLists ==
    GlobEntries \cup { e1 \o <<",">> \o e2 : e1, e2 \in GlobEntries }

CallIsStringInList ==
    /\ call = NoCall
    /\ \E args \in (GlobValues \X GlobLists)
                   \cup ({Str_kube_system, Str_default, Str_ns1}
                            \X {Str_kube_glob, Str_ns1_kube_glob, Str_default_builder}) :
          call' = [fn |-> "IsStringInList", find |-> args[1], list |-> args[2],
                   result |-> IsStringInList(args[1], args[2])]
    /\ UNCHANGED <<cfg, file, store, queue, worker, budget, hist, watcher>>

(* NewConfig, as a function of the two credential options, the namespace   *)
(* option and what GetOperatorNamespace answers when that option is empty. *)
NewConfigOpts(dockerConfigJSON, dockerConfigJSONPath, secretNamespace, operatorNamespace) ==
    IF secretNamespace = Str_empty /\ operatorNamespace.err
    THEN [err |-> TRUE]
    ELSE IF dockerConfigJSON = "" /\ dockerConfigJSONPath = ""
    THEN [err |-> TRUE]
    ELSE IF dockerConfigJSON # "" /\ dockerConfigJSONPath # ""
    THEN [err |-> TRUE]
    ELSE [err |-> FALSE,
          c |-> [NewConfig(FALSE) EXCEPT
                    !.DockerConfigJSON = dockerConfigJSON,
                    !.DockerConfigJSONPath = dockerConfigJSONPath,
                    !.SecretNamespace = IF secretNamespace = Str_empty
                                        THEN operatorNamespace.val
                                        ELSE secretNamespace]]

CallNewConfig ==
    /\ call = NoCall
    /\ \E dockerConfigJSON \in {"", Credential, "cred2"},
          dockerConfigJSONPath \in {"", CredentialPath},
          secretNamespace \in {Str_empty, Str_kube_system},
          operatorNamespace \in {[err |-> TRUE, val |-> Str_empty],
                                 [err |-> FALSE, val |-> Str_ns1]} :
          call' = [fn |-> "NewConfig",
                   DockerConfigJSON |-> dockerConfigJSON,
                   DockerConfigJSONPath |-> dockerConfigJSONPath,
                   result |-> NewConfigOpts(dockerConfigJSON, dockerConfigJSONPath,
                                            secretNamespace, operatorNamespace)]
    /\ UNCHANGED <<cfg, file, store, queue, worker, budget, hist, watcher>>

CallGetDockerConfigJSON ==
    /\ call = NoCall
    /\ \E dockerConfigJSON \in {"", Credential},
          dockerConfigJSONPath \in {"", CredentialPath} :
          LET c == [NewConfig(FALSE) EXCEPT
                       !.DockerConfigJSON = dockerConfigJSON,
                       !.DockerConfigJSONPath = dockerConfigJSONPath]
          IN  call' = [fn |-> "GetDockerConfigJSON", c |-> c,
                       result |-> GetDockerConfigJSON(c)]
    /\ UNCHANGED <<cfg, file, store, queue, worker, budget, hist, watcher>>

(* HasAnnotation on a Namespace (any client.Object) with no annotations,   *)
(* one annotation or two.                                                  *)
CallHasAnnotation ==
    /\ call = NoCall
    /\ \E annotations \in ClassifierAnnotations
                          \cup {(ExcludeKey :> "true") @@ ("foo" :> "bar"),
                                (AnnotationManagedBy :> AnnotationAppName) @@ ("foo" :> "")},
          annotationKey \in {ExcludeKey, AnnotationManagedBy, "foo"},
          annotationValue \in {"true", "True", AnnotationAppName, "bar", ""} :
          LET obj == [name |-> Str_default, annotations |-> annotations] IN
          call' = [fn |-> "HasAnnotation", obj |-> obj, key |-> annotationKey,
                   value |-> annotationValue,
                   result |-> HasAnnotation(obj, annotationKey, annotationValue)]
    /\ UNCHANGED <<cfg, file, store, queue, worker, budget, hist, watcher>>

(* The call returns to its caller. *)
ReturnCall ==
    /\ call # NoCall
    /\ call' = NoCall
    /\ UNCHANGED <<cfg, file, store, queue, worker, budget, hist, watcher>>

(* No controller is running: the store is empty and the queues stay empty. *)
InitPure ==
    /\ cfg = NewConfig(FALSE)
    /\ \/ Init!2
       \/ file = [readable |-> TRUE, content |-> "cred2", modTime |-> 0]
    /\ ns = [name |-> Str_ns1, annotations |-> EmptyMap]
    /\ serviceAccounts = EmptyMap
    /\ secrets = EmptyMap
    /\ pods = EmptyMap
    /\ queue = [c \in Controllers |-> {}]
    /\ Init!8
    /\ budget = 0
    /\ Init!10
    /\ Init!11
    /\ Init!12

NextPure ==
    \/ CallIsManagedSecret
    \/ CallIsServiceAccountManaged
    \/ CallIsNamespaceExcluded
    \/ CallIsStringInList
    \/ CallNewConfig
    \/ CallGetDockerConfigJSON
    \/ CallHasAnnotation
    \/ ReturnCall

SpecPure == InitPure /\ [][NextPure]_vars

C15_IsServiceAccountManaged ==
    call.fn = "IsServiceAccountManaged" =>
        LET c == call.c
            serviceAccount == call.obj
            optedOut ==
                /\ ExcludeKey \in DOMAIN serviceAccount.annotations
                /\ serviceAccount.annotations[ExcludeKey] = "true"
        IN  /\ call.result <=>
                  /\ ~IsNamespaceExcluded(c, call.namespace)
                  /\ ~optedOut
                  /\ IsStringInList(serviceAccount.name, c.ServiceAccounts)
            /\ IsNamespaceExcluded(c, call.namespace) => ~call.result

C15_Witness ==
    /\ call.fn = "IsServiceAccountManaged"
    /\ call.namespace = [name |-> Str_ns1, annotations |-> (ExcludeKey :> "true")]
    /\ call.c.ExcludedNamespaces = Str_kube_glob
    /\ call.c.ServiceAccounts = Str_default_builder
    /\ call.obj.name = Str_builder
    /\ call.obj.annotations = (ExcludeKey :> "false")
    /\ ~call.result

\* C16: IsNamespaceExcluded answers true exactly when the namespace's name
\* matches the configured list of excluded namespaces or the namespace
\* carries the exclude annotation with the literal value "true"; the values
\* "True", "false" and "1" do not exclude.
C16_IsNamespaceExcluded ==
    call.fn = "IsNamespaceExcluded" =>
        LET namespace == call.namespace
            listed == IsStringInList(namespace.name, call.c.ExcludedNamespaces)
            value == IF ExcludeKey \in DOMAIN namespace.annotations
                     THEN namespace.annotations[ExcludeKey] ELSE "(none)"
        IN  /\ call.result <=> (listed \/ value = "true")
            /\ (~listed /\ value \in {"True", "false", "1"}) => ~call.result

C16_Witness ==
    /\ call.fn = "IsNamespaceExcluded"
    /\ call.namespace = [name |-> Str_ns1, annotations |-> (ExcludeKey :> "True")]
    /\ call.c.ExcludedNamespaces = Str_kube_glob
    /\ ~call.result

(* The comma-separated entries of a list, read off the positions of its    *)
(* commas.                                                                 *)
ListEntries(list) ==
    LET commas == {0, Len(list) + 1} \cup {i \in 1..Len(list) : list[i] = ","}
    IN  { SubSeq(list, i + 1, j - 1) :
            <<i, j>> \in { p \in commas \X commas :
                             /\ p[1] < p[2]
                             /\ \A k \in commas : ~(p[1] < k /\ k < p[2]) } }

(* A pattern matches a value when the value can be cut into one piece per  *)
(* pattern character: '*' takes any piece, '?' takes one character, any    *)
(* other character takes itself; '*' and '?' take no path separator.       *)
GlobMatches(pattern, value) ==
    \E cut \in [0..Len(pattern) -> 0..Len(value)] :
        /\ cut[0] = 0
        /\ cut[Len(pattern)] = Len(value)
        /\ \A i \in 1..Len(pattern) :
              /\ cut[i-1] <= cut[i]
              /\ IF pattern[i] = "*"
                 THEN \A j \in (cut[i-1] + 1)..cut[i] : value[j] # "/"
                 ELSE /\ cut[i] = cut[i-1] + 1
                      /\ IF pattern[i] = "?" THEN value[cut[i]] # "/"
                                             ELSE value[cut[i]] = pattern[i]

\* C17: IsStringInList answers true exactly when the value equals, or is
\* matched as a glob pattern ('*' and '?') by, at least one comma-separated
\* entry of the list: "kube-system" is in the list "kube-*" and "default" is
\* not.
C17_IsStringInList ==
    call.fn = "IsStringInList" =>
        /\ (Len(call.find) <= MaxGlobLen /\ Len(call.list) <= 2 * MaxGlobLen + 1) =>
              (call.result <=>
                  \E entry \in ListEntries(call.list) :
                      entry = call.find \/ GlobMatches(entry, call.find))
        /\ (call.find = Str_kube_system /\ call.list = Str_kube_glob) => call.result
        /\ (call.find = Str_default /\ call.list = Str_kube_glob) => ~call.result

C17_Witness ==
    /\ call.fn = "IsStringInList"
    /\ call.find = <<"a","b","c">>
    /\ call.list = <<"?","b">> \o <<",">> \o <<"a","?","c">>
    /\ call.result

C17_KubeSystem ==
    /\ call.fn = "IsStringInList"
    /\ call.find = Str_kube_system
    /\ call.list = Str_kube_glob
    /\ call.result

ExactlyOneCredential(c) == (c.DockerConfigJSON = "") # (c.DockerConfigJSONPath = "")

\* C18: a configuration with neither or both of the inline credential and
\* the credential file path is rejected: NewConfig returns an error and no
\* Config, GetDockerConfigJSON returns an error without reading any file; so
\* a Config that NewConfig hands to the reconcilers has exactly one of the
\* two values non-empty.
C18_OneCredentialSource ==
    /\ call.fn = "NewConfig" =>
          /\ ~ExactlyOneCredential(call) =>
                call.result.err /\ "c" \notin DOMAIN call.result
          /\ ~call.result.err => ExactlyOneCredential(call.result.c)
    /\ call.fn = "GetDockerConfigJSON" =>
          (~ExactlyOneCredential(call.c) => call.result.err /\ ~call.result.read)
    /\ ExactlyOneCredential(cfg)

C18_Witness ==
    /\ call.fn = "GetDockerConfigJSON"
    /\ call.c.DockerConfigJSON = Credential
    /\ call.c.DockerConfigJSONPath = CredentialPath
    /\ file.readable
    /\ call.result.err

C18_NewConfigRejects ==
    /\ call.fn = "NewConfig"
    /\ call.DockerConfigJSON # ""
    /\ call.DockerConfigJSONPath # ""
    /\ call.result = [err |-> TRUE]

(***************************************************************************)
(* Notifications of every kind                                             *)
(*                                                                         *)
(* ServiceAccounts are created and deleted, Secrets the patcher does not   *)
(* manage exist beside the managed one, and the credential file changes.   *)
(***************************************************************************)

(* DeleteFunc of the ServiceAccount controller returns false. *)
ExternalDeleteServiceAccount ==
    \E name \in DOMAIN serviceAccounts :
        /\ serviceAccounts' = Remove(serviceAccounts, name)
        /\ External(queue)
        /\ UNCHANGED <<ns, secrets, pods>>

ExternalCreateServiceAccount ==
    \E name \in {Str_default, Str_builder} \ DOMAIN serviceAccounts :
        LET new == MakeServiceAccount(name, ns.name, EmptyMap, <<>>) IN
        /\ serviceAccounts' = Put(serviceAccounts, name, new)
        /\ External(ServiceAccountEvent(queue, new))
        /\ UNCHANGED <<ns, secrets, pods>>

UnmanagedSecret ==
    [annotations |-> EmptyMap, data |-> ("token" :> "x"), type |-> "Opaque"]

InitEvents ==
    /\ cfg = NewConfigFromPath(FALSE)
    /\ InitWatch!2
    /\ InitWatch!3
    /\ \/ InitWatch!4
       \/ serviceAccounts = (Str_builder :> MakeServiceAccount(Str_builder, Str_ns1, EmptyMap, <<>>))
    /\ secrets = (OtherSecretName :> MakeSecret(OtherSecretName, UnmanagedSecret))
    /\ pods = EmptyMap
    /\ InitWatch!7
    /\ InitWatch!8
    /\ InitWatch!9
    /\ InitWatch!10
    /\ InitWatch!11
    /\ InitWatch!12

(* The credential file is replaced once. *)
FirstFileChange == file.modTime = 0 /\ FileChange

(* No Pod fails to pull its image, so no Pod is deleted. *)
NextEvents ==
    \/ \E c \in Controllers : StartReconcile(c)
    \/ \E c \in Controllers : GetSecret(c)
    \/ \E c \in Controllers : CreateSecret(c)
    \/ \E c \in Controllers : PatchSecret(c)
    \/ GetServiceAccount
    \/ FetchNamespace
    \/ PatchServiceAccount
    \/ ListPodsForNamespace
    \/ WatcherStep
    \/ FirstFileChange
    \/ ExternalWriteSecret
    \/ ExternalDeleteSecret
    \/ ExternalWriteServiceAccount
    \/ ExternalDeleteServiceAccount
    \/ ExternalCreateServiceAccount

SpecEvents == InitEvents /\ [][NextEvents]_vars

(* Reconcile of key n by controller c has just returned an error: the      *)
(* workqueue adds the key again.                                           *)
Requeued(c, n) ==
    /\ worker[c].pc # "idle"
    /\ worker'[c].pc = "idle"
    /\ worker'[c].res = "err"
    /\ worker'[c].req = n

C19_UnmanagedSecretDeleted ==
    /\ OtherSecretName \notin DOMAIN secrets
    /\ cfg.SecretName \in DOMAIN secrets
    /\ queue.Secret = {}
    /\ SecretWorker.pc = "idle"
    /\ watcher.pc = "send"
    /\ budget = 0

(***************************************************************************)
(* The operator starts in a namespace whose ServiceAccount already holds   *)
(* the reference while the Secret is gone.                                 *)
(***************************************************************************)
InitAttached ==
    /\ cfg = NewConfig(TRUE)
    /\ Init!2
    /\ ns = [name |-> Str_ns1, annotations |-> EmptyMap]
    /\ serviceAccounts =
           (Str_default :> MakeServiceAccount(Str_default, ns.name, EmptyMap,
                                              <<cfg.SecretName>>))
           @@ (Str_builder :> MakeServiceAccount(Str_builder, ns.name, EmptyMap, <<>>))
    /\ secrets = EmptyMap
    /\ Init!6
    /\ Init!7
    /\ Init!8
    /\ Init!9
    /\ Init!10
    /\ Init!11
    /\ Init!12

SpecAttached == InitAttached /\ [][Next]_vars

Quiet == \A c \in Controllers : worker[c].pc = "idle" /\ queue[c] = {}

(* The Pods that remediation deletes: a container waits with an image pull *)
(* failure and the Pod's ServiceAccount is managed.                        *)
PodsToRemediate ==
    {p \in DOMAIN pods :
        /\ pods[p].serviceAccountName \in DOMAIN serviceAccounts
        /\ IsServiceAccountManaged(cfg, ns, serviceAccounts[pods[p].serviceAccountName])
        /\ \E i \in 1..Len(pods[p].containerStatuses) :
              IsUnauthorized(pods[p].containerStatuses[i])}

\* C20: a reconciliation that writes the managed Secret leads to Pod
\* remediation for the namespace, whichever controller ran it: once a Secret
\* has been created and both controllers have come to rest with nothing
\* having failed, no Pod of a managed ServiceAccount is left waiting with an
\* image pull failure.
C20_WriteLeadsToRemediation ==
    (Quiet /\ budget = MaxDisturbances /\ hist.created /\ cfg.FeatureDeletePods)
        => PodsToRemediate = {}

C20_Witness ==
    /\ Quiet
    /\ budget = MaxDisturbances
    /\ SAWorker.res = "ok" /\ SAWorker.changed /\ SAWorker.req = Str_default
    /\ Len(SAWorker.writes) = 1 /\ SAWorker.writes[1].op = "create"
    /\ SecretWorker.res = "ok" /\ ~SecretWorker.changed /\ SecretWorker.found
    /\ cfg.FeatureDeletePods
    /\ "p1" \in PodsToRemediate

(* The ServiceAccount patches and the Pod deletes in a reconcile's record. *)
PatchedServiceAccount(w) ==
    \E i \in WritesOf(w, "ServiceAccount") : w.writes[i].op = "patch"

DeletedPods(w) == {w.writes[i].obj : i \in WritesOf(w, "Pod")}

\* C21: in a ServiceAccount reconcile the Pod cleanup starts exactly when the
\* reconcile has just patched the ServiceAccount and FeatureDeletePods is
\* set; a reconcile that found the reference already present deletes no Pod;
\* and every Pod the reconcile deletes names the reconciled ServiceAccount.
C21_CleanupOnlyAfterAttach ==
    [][ LET w == worker["SA"]
            w2 == worker'["SA"]
        IN  /\ (w.pc # "ListPodsForSA" /\ w2.pc = "ListPodsForSA")
                  <=> (Issues("SA", "ServiceAccount") /\ cfg.FeatureDeletePods)
            /\ Issues("SA", "Pod") =>
                  /\ cfg.FeatureDeletePods
                  /\ PatchedServiceAccount(w)
                  /\ w2.writes[Len(w2.writes)].obj.serviceAccountName = w.sa.name
                  /\ w.sa.name = w.req
            /\ (w2.pc = "idle" /\ w2.sa.name = w2.req
                   /\ includeImagePullSecret(w2.sa, cfg.SecretName))
                  => DeletedPods(w2) = {}
      ]_vars

C21_Witness ==
    /\ cfg.FeatureDeletePods
    /\ SAWorker.req = Str_default
    /\ Len(SAWorker.writes) = 3
    /\ SAWorker.writes[1].kind = "Secret"
    /\ SAWorker.writes[2].kind = "ServiceAccount"
    /\ SAWorker.writes[3].kind = "Pod" /\ SAWorker.writes[3].name = "p1"
    /\ "p2" \in DOMAIN pods

C21_FeatureOff ==
    /\ ~cfg.FeatureDeletePods
    /\ SAWorker.pc = "idle" /\ SAWorker.res = "ok"
    /\ PatchedServiceAccount(SAWorker)
    /\ DeletedPods(SAWorker) = {}
    /\ "p1" \in DOMAIN pods

\* C22: with FeatureDeletePods disabled no reconciler deletes a Pod, neither
\* the ServiceAccount reconciler nor the Secret reconciler after it changed
\* the Secret.
C22_NoDeleteWhenDisabled ==
    [][ ~cfg.FeatureDeletePods =>
            /\ \A c \in Controllers : ~Issues(c, "Pod")
            /\ pods' = pods ]_vars

C22_Witness ==
    /\ ~cfg.FeatureDeletePods
    /\ SecretWorker.changed
    /\ DeletedPods(SecretWorker) # {}
    /\ "p1" \notin DOMAIN pods
    /\ budget = MaxDisturbances

(***************************************************************************)
(* Failures of the Pod cleanup only                                        *)
(***************************************************************************)
CleanupCalls ==
    {"ListPodsForSA", "DeletePodForSA", "ListPodsForNamespace",
     "PodFetchNamespace", "PodFetchServiceAccount", "DeletePodForNamespace"}

(* An API call of CleanupPodsForSA or CleanupPodsForNamespace fails. *)
CleanupError(c) == worker[c].pc \in CleanupCalls /\ ApiError(c)

NextCleanupFailure ==
    \/ ReconcileStep
    \/ \E c \in Controllers : CleanupError(c)

SpecCleanupFailure == InitLive /\ [][NextCleanupFailure]_vars

\* C23: Pod remediation is not lost when it fails part-way: after an API call
\* of the cleanup has failed (the write that triggered the cleanup having
\* succeeded) and the requeued reconciles have run with every call
\* succeeding, no Pod of a managed ServiceAccount is left waiting with an
\* image pull failure.
C23_RemediationNotLost ==
    (Quiet /\ budget < MaxDisturbances) => PodsToRemediate = {}

C23_Witness ==
    /\ Quiet
    /\ budget < MaxDisturbances
    /\ \A c \in Controllers : worker[c].res = "ok"
    /\ cfg.SecretName \in DOMAIN secrets
    /\ includeImagePullSecret(serviceAccounts[Str_default], cfg.SecretName)
    /\ "p1" \in PodsToRemediate

\* C24: CleanupPodsForSA sends each Pod at most one delete request, also when
\* several of the Pod's containers wait with an image pull failure: it never
\* asks for the deletion of a Pod it has already deleted in this call.
C24_OneDeletePerPod ==
    (SAWorker.pc = "DeletePodForSA") =>
        SAWorker.podList[SAWorker.pi] \notin DeletedPods(SAWorker)

C24_Witness ==
    /\ SAWorker.pc = "DeletePodForSA"
    /\ SAWorker.podList[SAWorker.pi].name = "p1"
    /\ SAWorker.ci = 2
    /\ SAWorker.podList[SAWorker.pi] \in DeletedPods(SAWorker)
    /\ "p1" \notin DOMAIN pods
    /\ budget = MaxDisturbances

(* Controller c is about to delete, or to fetch the ServiceAccount of, a   *)
(* listed Pod, and the object has disappeared since the list without this  *)
(* reconcile having deleted it.                                            *)
VanishedSinceList(c) ==
    LET w == worker[c] IN
    \/ /\ w.pc \in {"DeletePodForSA", "DeletePodForNamespace"}
       /\ w.podList[w.pi].name \notin DOMAIN pods
       /\ w.podList[w.pi] \notin DeletedPods(w)
    \/ /\ w.pc = "PodFetchServiceAccount"
       /\ w.podList[w.pi].serviceAccountName \notin DOMAIN serviceAccounts

\* C25: during Pod remediation an object that has disappeared since the Pod
\* list (the Pod deleted by someone else, the Pod's ServiceAccount gone) is
\* a no-op: unless an API call fails, the step that meets it does not end the
\* reconcile with an error.
C25_VanishedIsBenign ==
    [][ \A c \in Controllers :
            (VanishedSinceList(c) /\ budget' = budget)
                => ~(worker'[c].pc = "idle" /\ worker'[c].res = "err") ]_vars

C25_Witness ==
    /\ budget = MaxDisturbances
    /\ SecretWorker.pc = "idle" /\ SecretWorker.res = "err"
    /\ SecretWorker.changed
    /\ DeletedPods(SecretWorker) = {}
    /\ \E pod \in DeletedPods(SAWorker) : pod.name = "p1"

(***************************************************************************)
(* A namespace in which a stuck Pod of an unmanaged ServiceAccount is      *)
(* listed before a stuck Pod of a managed one, and the Secret is stale.    *)
(***************************************************************************)
InitScan ==
    /\ cfg = NewConfig(TRUE)
    /\ Init!2
    /\ InitLive!3
    /\ InitLive!4
    /\ secrets = (cfg.SecretName :> MakeSecret(cfg.SecretName,
                     [annotations |-> EmptyMap,
                      data |-> (DockerConfigJsonKey :> "stale"),
                      type |-> SecretTypeDockerConfigJson]))
    /\ pods = ("p1" :> MakePod("p1", Str_builder, <<ContainerStatus(TRUE, "ErrImagePull")>>))
              @@ ("p2" :> MakePod("p2", Str_default,
                             <<ContainerStatus(FALSE, ""), ContainerStatus(TRUE, "ImagePullBackOff")>>))
              @@ ("p3" :> MakePod("p3", Str_default, <<ContainerStatus(TRUE, "CrashLoopBackOff")>>))
    /\ Init!7
    /\ Init!8
    /\ Init!9
    /\ Init!10
    /\ Init!11
    /\ Init!12

SpecScan == InitScan /\ [][Next]_vars

\* C26: CleanupPodsForNamespace decides Pod by Pod: it deletes a Pod only
\* after it has fetched the Pod's ServiceAccount and found it managed; a Pod
\* whose ServiceAccount is unmanaged is skipped and the scan goes on with the
\* next Pod; and when the scan returns without error, no Pod of a managed
\* ServiceAccount is left waiting with an image pull failure.
C26_ScanDecidesPerPod ==
    [][ LET w == worker["Secret"]
            w2 == worker'["Secret"]
        IN  /\ Issues("Secret", "Pod") =>
                  LET pod == w2.writes[Len(w2.writes)].obj IN
                  /\ w.sa.name = pod.serviceAccountName
                  /\ IsServiceAccountManaged(cfg, w.nsObj, w.sa)
            /\ (/\ w.pc = "PodFetchServiceAccount"
                /\ w2 # w
                /\ w.podList[w.pi].serviceAccountName \in DOMAIN serviceAccounts
                /\ ~IsServiceAccountManaged(cfg, ns,
                        serviceAccounts[w.podList[w.pi].serviceAccountName])
                /\ budget' = budget)
                  => /\ w2.writes = w.writes
                     /\ IF w.pi < Len(w.podList)
                        THEN w2.pc = "PodFetchNamespace" /\ w2.pi = w.pi + 1
                        ELSE w2.pc = "idle" /\ w2.res = "ok"
            /\ (/\ w.pc \in CleanupCalls
                /\ w2.pc = "idle" /\ w2.res = "ok" /\ ~w2.extDuring)
                  => PodsToRemediate' = {}
      ]_vars

C26_Witness ==
    /\ SecretWorker.pc = "idle" /\ SecretWorker.res = "ok"
    /\ SecretWorker.changed /\ ~SecretWorker.extDuring
    /\ {pod.name : pod \in DeletedPods(SecretWorker)} = {"p2"}
    /\ "p1" \in DOMAIN pods
    /\ ~IsServiceAccountManaged(cfg, ns, serviceAccounts[pods["p1"].serviceAccountName])
    /\ budget = MaxDisturbances

(***************************************************************************)
(* The credential is given inline, or by the path of a file that cannot be *)
(* read.                                                                   *)
(***************************************************************************)
InitCredential ==
    /\ cfg \in {NewConfig(TRUE), NewConfigFromPath(TRUE)}
    /\ Init!2
    /\ InitLive!3
    /\ InitLive!4
    /\ Init!5
    /\ Init!6
    /\ Init!7
    /\ Init!8
    /\ Init!9
    /\ Init!10
    /\ Init!11
    /\ Init!12

SpecCredential == InitCredential /\ [][Next]_vars

SecretCalls == {"GetSecret", "CreateSecret", "PatchSecret"}

\* C27: when ReconcileImagePullSecret fails (the credential cannot be
\* resolved, or the fetch, the create or the patch of the Secret fails) it
\* returns an error with changed = false, the reconcile ends with that error
\* having issued no write and no Pod cleanup, and its request is queued
\* again; with an unresolvable credential no call on the Secret is made.
C27_SecretFailure ==
    \A c \in Controllers :
        LET w == worker[c] IN
        /\ w.ripsRes = "err" =>
              /\ w.pc = "idle" /\ w.res = "err"
              /\ ~w.changed
              /\ w.writes = <<>>
              /\ w.req \in queue[c]
        /\ GetDockerConfigJSON(cfg).err =>
              w.pc \notin SecretCalls /\ w.ripsRes # "ok"

C27_Witness ==
    /\ SecretWorker.ripsRes = "err"
    /\ SecretWorker.found
    /\ NeedsPatch(SecretWorker.secret, SecretWorker.desired)
    /\ budget < MaxDisturbances
    /\ secrets[cfg.SecretName] = SecretWorker.secret
    /\ "p1" \in PodsToRemediate

C27_CredentialUnresolved ==
    /\ GetDockerConfigJSON(cfg).err
    /\ SAWorker.ripsRes = "err"
    /\ SAWorker.managed = "yes"
    /\ SAWorker.req \in queue["SA"]

\* C28: the Secret step is a hard precondition of the attach: a
\* ServiceAccount reconcile whose Secret step failed has ended with that
\* error, has not patched the ServiceAccount and has deleted no Pod, and the
\* ServiceAccount is as the reconcile fetched it.
C28_SecretStepIsPrecondition ==
    SAWorker.ripsRes = "err" =>
        /\ SAWorker.pc = "idle" /\ SAWorker.res = "err"
        /\ ~PatchedServiceAccount(SAWorker)
        /\ DeletedPods(SAWorker) = {}
        /\ ~SAWorker.extDuring => serviceAccounts[SAWorker.req] = SAWorker.sa

C28_Witness ==
    /\ SAWorker.ripsRes = "err"
    /\ SAWorker.managed = "yes"
    /\ ~SAWorker.extDuring
    /\ cfg.FeatureDeletePods
    /\ ~includeImagePullSecret(serviceAccounts[SAWorker.req], cfg.SecretName)
    /\ "p1" \in PodsToRemediate

(***************************************************************************)
(* ServiceAccounts are deleted while their keys wait in the queue          *)
(***************************************************************************)
NextDeletion ==
    \/ Next
    \/ ExternalDeleteServiceAccount

SpecDeletion == InitLive /\ [][NextDeletion]_vars /\ WF_vars(ReconcileStep)

\* C29: a ServiceAccount reconcile that cannot fetch its ServiceAccount (the
\* Get fails, or the ServiceAccount is not found because it was deleted)
\* ends with an error in that step, with no write issued and nothing in the
\* store changed, and its request is queued again.
C29_FetchFailureIsFatal ==
    [][ LET w == worker["SA"]
            w2 == worker'["SA"]
        IN  (/\ w.pc = "GetServiceAccount"
             /\ w2.pc # w.pc
             /\ w.req \notin DOMAIN serviceAccounts \/ budget' < budget)
                => /\ w2.pc = "idle" /\ w2.res = "err"
                   /\ w2.writes = <<>>
                   /\ w2.ripsRes = "none"
                   /\ store' = store
                   /\ w2.req \in queue'.SA
      ]_vars

C29_Witness ==
    /\ SAWorker.pc = "idle" /\ SAWorker.res = "err"
    /\ SAWorker.req = Str_default
    /\ Str_default \notin DOMAIN serviceAccounts
    /\ SAWorker.sa = NoServiceAccount
    /\ SAWorker.writes = <<>>
    /\ Str_default \in queue.SA

\* C30: when no call fails and nothing changes any more, every queued
\* request completes successfully and none is requeued forever: from some
\* point on both queues are empty and both workers are idle, their last
\* reconcile having returned without error; this includes the request of a
\* ServiceAccount deleted before its reconcile ran.
C30_RequestsComplete ==
    <>[](Quiet /\ \A c \in Controllers : worker[c].res # "err")

C30_Witness ==
    /\ budget = 0
    /\ Str_default \notin DOMAIN serviceAccounts
    /\ SAWorker.pc = "idle" /\ SAWorker.res = "err" /\ SAWorker.req = Str_default
    /\ SAWorker.sa = NoServiceAccount
    /\ ~SAWorker.extDuring
    /\ queue = [SA |-> {Str_default}, Secret |-> {}]
    /\ SecretWorker.pc = "idle" /\ SecretWorker.res = "ok"

(***************************************************************************)
(* The names of the Secrets the controllers write                          *)
(***************************************************************************)
\* C31: every Secret a controller creates or patches has the configured
\* name (SecretName), so the controllers write at most one Secret of the
\* namespace; also when the Secret controller reconciles the request of a
\* Secret of another name that carries the managed-by annotation.
C31_ConfiguredNameOnly ==
    \A c \in Controllers : \A i \in WritesOf(worker[c], "Secret") :
        worker[c].writes[i].name = cfg.SecretName

C31_Witness ==
    LET w == SecretWorker IN
    /\ w.req = LegacySecretName /\ w.found /\ w.ripsRes = "ok" /\ w.changed
    /\ \E i \in WritesOf(w, "Secret") :
          w.writes[i].op = "patch" /\ w.writes[i].name = LegacySecretName
    /\ cfg.SecretName \in DOMAIN secrets
    /\ HasAnnotation(secrets[cfg.SecretName], AnnotationManagedBy, AnnotationAppName)

(***************************************************************************)
(* The operator deployed in a namespace that is not excluded: the Secret   *)
(* it takes its credential from (SecretName in SecretNamespace, without    *)
(* the managed-by annotation) lives next to managed ServiceAccounts.       *)
(***************************************************************************)
SourceSecret ==
    [annotations |-> EmptyMap,
     data |-> (DockerConfigJsonKey :> Credential) @@ ("owner" :> "platform"),
     type |-> SecretTypeDockerConfigJson]

InitSource ==
    /\ cfg \in {[NewConfig(d) EXCEPT !.SecretNamespace = Str_ns1] : d \in BOOLEAN}
    /\ Init!2
    /\ InitLive!3 /\ InitLive!4
    /\ secrets = (cfg.SecretName :> MakeSecret(cfg.SecretName, SourceSecret))
    /\ Init!6 /\ Init!7 /\ Init!8 /\ Init!9 /\ Init!10 /\ Init!11 /\ Init!12

SpecSource == InitSource /\ [][Next]_vars

(* The last write in the record of controller c's reconcile, after a step. *)
LastWrite(c) == worker'[c].writes[Len(worker'[c].writes)]

\* C32: a controller patches only a Secret that it classifies as managed; the
\* Secret of the configured name in SecretNamespace that carries no
\* managed-by annotation (the source of the credential) is never patched,
\* also not by the reconcile of a managed ServiceAccount of SecretNamespace
\* when that namespace is not excluded.
C32_SourceSecretUntouched ==
    [][\A c \in Controllers :
          (Issues(c, "Secret") /\ LastWrite(c).op = "patch") =>
              IsManagedSecret(cfg, ns, secrets[LastWrite(c).name])]_vars

C32_Witness ==
    LET w == SAWorker IN
    /\ ns.name = cfg.SecretNamespace /\ ~IsNamespaceExcluded(cfg, ns)
    /\ w.managed = "yes" /\ w.found /\ w.ripsRes = "ok" /\ ~w.extDuring
    /\ ~IsManagedSecret(cfg, ns, w.secret)
    /\ w.secret = MakeSecret(cfg.SecretName, SourceSecret)
    /\ \E i \in WritesOf(w, "Secret") :
          w.writes[i].op = "patch" /\ w.writes[i].name = cfg.SecretName
    /\ secrets[cfg.SecretName].data = w.desired.data

(***************************************************************************)
(* Namespaces that become excluded, and notifications whose namespace      *)
(* lookup fails                                                            *)
(*                                                                         *)
(* Neither controller watches Namespaces: a change of the Namespace        *)
(* object queues nothing.  The event filters fetch the namespace of the    *)
(* notified object themselves, and that Get can fail.                      *)
(***************************************************************************)

(* The owner of the namespace sets the exclude annotation. *)
ExternalExcludeNamespace ==
    /\ ~HasAnnotation(ns, cfg.ExcludeAnnotation, "true")
    /\ ns' = [ns EXCEPT !.annotations = Put(@, cfg.ExcludeAnnotation, "true")]
    /\ External(queue)
    /\ UNCHANGED <<serviceAccounts, secrets, pods>>

(* utils.FetchNamespace as the Secret controller's event filter calls it   *)
(* (one value returned): the error of the Get is dropped and the Namespace *)
(* object prepared for the Get, which holds the name only, is returned.    *)
FetchNamespaceNoError(failed) ==
    IF failed THEN [name |-> ns.name, annotations |-> EmptyMap] ELSE ns

(* The Secret controller's event filter on a notification for obj when the *)
(* Get of the namespace fails.                                             *)
SecretEventFetchFailed(q, obj) ==
    IF IsManagedSecret(cfg, FetchNamespaceNoError(TRUE), obj)
    THEN [q EXCEPT !.Secret = @ \cup {obj.name}] ELSE q

(* The ServiceAccount controller's event filter when the Get of the        *)
(* namespace fails: `if err != nil { return false }`.                      *)
ServiceAccountEventFetchFailed(q, obj) == q

(* A notification for an existing Secret (an update, or the informer's     *)
(* resync) whose namespace lookup fails.                                   *)
SecretNotificationFetchFails ==
    /\ budget > 0
    /\ budget' = budget - 1
    /\ \E n \in DOMAIN secrets : queue' = SecretEventFetchFailed(queue, secrets[n])
    /\ UNCHANGED <<cfg, file, store, worker, hist, watcher, call>>

(* The same for an existing ServiceAccount. *)
ServiceAccountNotificationFetchFails ==
    /\ budget > 0
    /\ budget' = budget - 1
    /\ \E n \in DOMAIN serviceAccounts :
          queue' = ServiceAccountEventFetchFailed(queue, serviceAccounts[n])
    /\ UNCHANGED <<cfg, file, store, worker, hist, watcher, call>>

NextExclusion ==
    \/ Next
    \/ ExternalExcludeNamespace
    \/ SecretNotificationFetchFails
    \/ ServiceAccountNotificationFetchFails

SpecExclusion == Init /\ [][NextExclusion]_vars

\* C33: no Secret is created or patched in a namespace that is excluded (by
\* name pattern or by the exclude annotation) by a reconcile that began after
\* the namespace was excluded; also when the namespace became excluded after
\* the notification was queued and when the namespace lookup of the event
\* filter failed.
C33_NoWriteInExcludedNamespace ==
    [][\A c \in Controllers :
          (Issues(c, "Secret") /\ ~worker[c].extDuring) =>
              ~IsNamespaceExcluded(cfg, ns)]_vars

C33_Witness ==
    LET w == SecretWorker IN
    /\ IsNamespaceExcluded(cfg, ns)
    /\ w.pc = "idle" /\ w.res = "ok" /\ ~w.extDuring /\ w.changed
    /\ WritesOf(w, "Secret") # {}
    /\ secrets[cfg.SecretName].data = w.desired.data
    /\ budget = 0

(***************************************************************************)
(* What a patch of the Secret changes                                      *)
(***************************************************************************)
\* C34: when the Secret that ReconcileImagePullSecret fetched differs from
\* the desired one in annotations or data, the patch (applied to the Secret
\* as it was fetched) replaces the whole annotations map and the whole data
\* map by the desired ones, keys added by others are removed, every other
\* field stays as it was, and the call reports changed = true; when both maps
\* equal the desired ones, nothing is written and it reports changed = false.
C34_WholeMapsReplaced ==
    [][\A c \in Controllers :
          LET w == worker[c]
              w2 == worker'[c]
          IN
          /\ (/\ w.pc = "PatchSecret" /\ Issues(c, "Secret")
              /\ w.secret.name \in DOMAIN secrets
              /\ secrets[w.secret.name] = w.secret) =>
                 /\ NeedsPatch(w.secret, w.desired)
                 /\ secrets' = [secrets EXCEPT ![w.secret.name] =
                                   [w.secret EXCEPT !.annotations = w.desired.annotations,
                                                    !.data = w.desired.data]]
                 /\ w2.ripsRes = "ok" /\ w2.changed
          /\ (w.pc = "GetSecret" /\ w2.found) =>
                 /\ secrets' = secrets /\ w2.writes = w.writes
                 /\ IF \/ w2.secret.annotations # w.desired.annotations
                       \/ w2.secret.data # w.desired.data
                    THEN w2.pc = "PatchSecret" /\ w2.ripsRes = "none"
                    ELSE w2.ripsRes = "ok" /\ ~w2.changed
      ]_vars

C34_Witness ==
    \E c \in Controllers :
        LET w == worker[c] IN
        /\ w.found /\ w.ripsRes = "ok" /\ w.changed /\ ~w.extDuring
        /\ "note" \in DOMAIN w.secret.annotations
        /\ "extra" \in DOMAIN w.secret.data
        /\ secrets[w.secretName].annotations = w.desired.annotations
        /\ secrets[w.secretName].data = w.desired.data
        /\ secrets[w.secretName].type = w.secret.type

C34_Unchanged ==
    \E c \in Controllers :
        LET w == worker[c] IN
        /\ w.found /\ w.ripsRes = "ok" /\ ~w.changed /\ ~w.extDuring
        /\ w.writes = <<>>
        /\ secrets[w.secretName] = w.secret

(***************************************************************************)
(* What the controllers write                                              *)
(***************************************************************************)
\* C35: a step of a controller never deletes a Secret, a ServiceAccount or
\* the Namespace and never changes the Namespace or a Pod; what it changes in
\* the store is one of: a Secret created, a Secret's annotations and data
\* patched, a ServiceAccount's imagePullSecrets patched, a Pod deleted, and
\* each such change is a write of that kind issued by a reconciler.
C35_OnlyFourWrites ==
    [][ budget' = budget =>
          /\ ns' = ns
          /\ DOMAIN secrets \subseteq DOMAIN secrets'
          /\ \A n \in DOMAIN secrets :
                secrets'[n] = [secrets[n] EXCEPT !.annotations = secrets'[n].annotations,
                                                 !.data = secrets'[n].data]
          /\ secrets' # secrets => \E c \in Controllers : Issues(c, "Secret")
          /\ DOMAIN serviceAccounts' = DOMAIN serviceAccounts
          /\ \A n \in DOMAIN serviceAccounts :
                serviceAccounts'[n] =
                    [serviceAccounts[n] EXCEPT
                        !.imagePullSecrets = serviceAccounts'[n].imagePullSecrets]
          /\ serviceAccounts' # serviceAccounts => Issues("SA", "ServiceAccount")
          /\ DOMAIN pods' \subseteq DOMAIN pods
          /\ \A n \in DOMAIN pods' : pods'[n] = pods[n]
          /\ pods' # pods => \E c \in Controllers : Issues(c, "Pod")
      ]_vars

C35_Witness ==
    LET w == SAWorker IN
    /\ budget = MaxDisturbances
    /\ w.pc = "idle"
    /\ \E i, j, k \in 1..Len(w.writes) :
          /\ w.writes[i].kind = "Secret" /\ w.writes[i].op = "patch"
          /\ w.writes[j].kind = "ServiceAccount" /\ w.writes[j].op = "patch"
          /\ w.writes[k].kind = "Pod" /\ w.writes[k].op = "delete"
    /\ secrets[cfg.SecretName].type = "Opaque"
    /\ "p1" \notin DOMAIN pods
    /\ "p3" \in DOMAIN pods /\ pods["p3"] = InitPods["p3"]
    /\ Str_builder \in DOMAIN serviceAccounts

(***************************************************************************)
(* The managed reference in a ServiceAccount's imagePullSecrets            *)
(***************************************************************************)
(* How often the reference to secretName occurs in list. *)
Occurrences(list, secretName) ==
    Cardinality({i \in 1..Len(list) : list[i] = secretName})

\* C36: the ServiceAccount reconciler patches a ServiceAccount only when the
\* list it fetched holds no entry named SecretName, and the list it writes is
\* the fetched list with that one reference appended; so under every
\* interleaving of reconciles and foreign writes the reference occurs at most
\* once in every ServiceAccount's list.
C36_NoDuplicateReference ==
    [][ /\ Issues("SA", "ServiceAccount") =>
              /\ Occurrences(SAWorker.sa.imagePullSecrets, cfg.SecretName) = 0
              /\ LastWrite("SA").obj.imagePullSecrets =
                     Append(SAWorker.sa.imagePullSecrets, cfg.SecretName)
        /\ \A n \in DOMAIN serviceAccounts' :
              Occurrences(serviceAccounts'[n].imagePullSecrets, cfg.SecretName) <= 1
      ]_vars

C36_Witness ==
    LET w == SAWorker IN
    /\ w.pc = "idle" /\ w.res = "ok" /\ w.managed = "yes" /\ w.afterSettled
    /\ w.writes = <<>>
    /\ w.sa.imagePullSecrets = <<OtherSecretName, cfg.SecretName>>
    /\ serviceAccounts[w.req].imagePullSecrets = <<OtherSecretName, cfg.SecretName>>

(***************************************************************************)
(* The event filters when the namespace cannot be fetched                  *)
(***************************************************************************)
(* This step is a notification whose namespace lookup failed: a failure    *)
(* that is no call of a reconciler, with the store as it was.              *)
FilterFetchFailed ==
    budget' < budget /\ worker' = worker /\ store' = store

\* C37: when the namespace of the notified object cannot be fetched, the
\* event filter answers false and the notification is dropped: no key is
\* added to the queue of the ServiceAccount controller nor to the queue of
\* the Secret controller.
C37_FilterDropsOnFetchFailure ==
    [][FilterFetchFailed => queue' = queue]_vars

(* The part of it that is about ServiceAccount notifications. *)
C37_ServiceAccountDropped ==
    [][FilterFetchFailed => queue'.SA = queue.SA]_vars

C37_Witness ==
    /\ HasAnnotation(ns, cfg.ExcludeAnnotation, "true")
    /\ budget = 0
    /\ \A c \in Controllers : worker[c] = Idle(c)
    /\ queue = [SA |-> {}, Secret |-> {cfg.SecretName}]
    /\ ~HasAnnotation(secrets[cfg.SecretName], AnnotationManagedBy, AnnotationAppName)

(***************************************************************************)
(* The credential file disappears and comes back                           *)
(*                                                                         *)
(* The watcher alone, over a file that may be missing when the operator    *)
(* starts (the volume is not mounted yet) or while it runs.                *)
(***************************************************************************)
FileLost ==
    /\ file.readable
    /\ file' = [file EXCEPT !.readable = FALSE, !.content = ""]
    /\ UNCHANGED <<cfg, store, queue, worker, budget, hist, watcher, call>>

(* The file is there again, with a new modification time. *)
FileRestored ==
    /\ ~file.readable
    /\ file.modTime < MaxFileChanges
    /\ \E content \in FileContents :
          file' = [readable |-> TRUE, content |-> content, modTime |-> file.modTime + 1]
    /\ UNCHANGED <<cfg, store, queue, worker, budget, hist, watcher, call>>

InitFile ==
    /\ cfg = NewConfigFromPath(FALSE)
    /\ \/ InitWatch!2
       \/ Init!2
    /\ InitWatch!3
    /\ InitWatch!4
    /\ secrets = (cfg.SecretName :>
                     MakeSecret(cfg.SecretName,
                                [annotations |-> ManagedBy,
                                 data |-> (DockerConfigJsonKey :> Credential),
                                 type |-> SecretTypeDockerConfigJson]))
                 @@ (OtherSecretName :> MakeSecret(OtherSecretName, UnmanagedSecret))
    /\ pods = EmptyMap
    /\ queue = [c \in Controllers |-> {}]
    /\ InitWatch!8
    /\ budget = 0
    /\ InitWatch!10
    /\ InitWatch!11
    /\ InitWatch!12

NextFile ==
    \/ WatcherStep
    \/ FileChange
    \/ FileLost
    \/ FileRestored

SpecFile == InitFile /\ [][NextFile]_vars

\* C38: WaitUntilFileChanges returns only at a poll that reads a modification
\* time different from the one read when it was called, and goes on polling
\* otherwise; a poll at which the file cannot be read is skipped and polling
\* goes on, also when the file could not be read when the function was
\* called.
C38_WaitUntilFileChanges ==
    [][watcher.pc = "poll" =>
          \/ watcher'.pc = "poll"
          \/ /\ watcher'.pc = "list"
             /\ file.readable
             /\ watcher.initialStat # NilStat => file.modTime # watcher.initialStat
      ]_vars

(* The same for the calls at which the file could be read. *)
C38_ReadableAtCall ==
    [][(watcher.pc = "poll" /\ watcher.initialStat # NilStat) =>
          \/ watcher'.pc = "poll"
          \/ /\ watcher'.pc = "list"
             /\ file.readable
             /\ file.modTime # watcher.initialStat
      ]_vars

C38_Witness ==
    /\ watcher.pc = "panic"
    /\ watcher.initialStat = NilStat
    /\ file.readable

(***************************************************************************)
(* Empty entries of a pattern list                                         *)
(***************************************************************************)
\* C39: an empty entry of the comma-separated list never matches: whenever
\* IsStringInList answers true, for any value, the empty string included,
\* some entry of the list that is not empty equals the value or matches it
\* as a pattern; an empty list, or a list such as "a," or ",", does not
\* match through its empty entry.
C39_EmptyEntryNeverMatches ==
    call.fn = "IsStringInList" =>
        (call.result =>
            \E entry \in ListEntries(call.list) \ {<<>>} :
                entry = call.find \/ GlobMatches(entry, call.find))

C39_Witness ==
    /\ call.fn = "IsStringInList"
    /\ call.find = <<>>
    /\ call.list = <<"a", ",">>
    /\ call.result

(* The same for the values that are not empty. *)
C39_NonEmptyValue ==
    (call.fn = "IsStringInList" /\ call.find # <<>>) =>
        (call.result =>
            \E entry \in ListEntries(call.list) \ {<<>>} :
                entry = call.find \/ GlobMatches(entry, call.find))

(***************************************************************************)
(* HasAnnotation                                                           *)
(***************************************************************************)
(* The annotations of obj as a set of (key, value) pairs. *)
AnnotationPairs(obj) ==
    {<<k, obj.annotations[k]>> : k \in DOMAIN obj.annotations}

\* C40: HasAnnotation(obj, key, value) is true exactly when obj's annotations
\* hold key with a value equal to value, compared as strings with case; no
\* annotations at all, a missing key (also when the value asked for is the
\* empty string) or another value (also one that differs in case only) gives
\* false.
C40_HasAnnotation ==
    call.fn = "HasAnnotation" =>
        /\ call.result <=> <<call.key, call.value>> \in AnnotationPairs(call.obj)
        /\ call.obj.annotations = EmptyMap => ~call.result
        /\ call.key \notin DOMAIN call.obj.annotations => ~call.result
        /\ (call.obj.annotations = (ExcludeKey :> "True")
              /\ call.key = ExcludeKey /\ call.value = "true") => ~call.result
        /\ (call.obj.annotations = (AnnotationManagedBy :> AnnotationAppName)
              /\ call.key = AnnotationManagedBy /\ call.value = AnnotationAppName)
              => call.result

C40_Witness ==
    /\ call.fn = "HasAnnotation"
    /\ call.obj.annotations = (ExcludeKey :> "true") @@ ("foo" :> "bar")
    /\ call.key = "foo" /\ call.value = "bar"
    /\ call.result

C40_MissingKey ==
    /\ call.fn = "HasAnnotation"
    /\ call.obj.annotations = (ExcludeKey :> "true")
    /\ call.key = AnnotationManagedBy /\ call.value = ""
    /\ ~call.result

====
